---- MODULE Spec2Model ----
(***************************************************************************)
(* State-machine model of the audio engine of the sound editor: the        *)
(* history manager (updateHistory / handleUndo / handleRedo /              *)
(* loadEditorFile / handleEffect) and the transport scheduler              *)
(* (startPlayback / stopAllAudio / handlePlayPause / handleSeek / the      *)
(* playback loop) of the App component, src/unnamed/part_000.              *)
(*                                                                         *)
(* React semantics that the model keeps:                                   *)
(*  - a handler runs to completion against the state of the latest render; *)
(*  - an async handler (loadEditorFile, handleEffect, addTrackToStudio)    *)
(*    is split at its await: the part after the await runs later, with     *)
(*    the variables of the render in which the handler was invoked.  The   *)
(*    captured values travel in the entry of pendingOps.                   *)
(*  - refs (audioSourceRef, playbackStartTimeRef, ...) are shared mutable  *)
(*    cells and are never captured.                                        *)
(* Times are integers (one unit = one second of the timeline).             *)
(***************************************************************************)
EXTENDS Integers, Sequences, FiniteSets, TLC

\* ------------------------------------------------------------------ bounds
MaxT == 2           \* longest decoded buffer, in time units
MaxBuffers == 3     \* buffers created (decoded or produced by an effect) in one run
MaxPending == 2     \* async handlers in flight at once
MaxClock == 3       \* last reading of the audio clock
MaxTracks == 2      \* tracks added in one run

FramesPerUnit == 1  \* sample frames in one time unit (the sample rate)
MaxDownloads == 1   \* files handed to the browser in one run
MaxFrames == 3      \* longest buffer an audio utility is called on directly, in frames

\* The files the user chooses from: two are enough to tell a newly loaded
\* file from the one loaded before it.
Files == {1, 2}

\* decodeAudioData is a function of the file: file f decodes to a buffer of
\* FileDuration(f) time units, at most MaxT.
FileDuration(f) == IF f <= MaxT THEN f ELSE MaxT

\* The absent buffer (null) and the absent file (null).
NoBuffer == [id |-> 0, file |-> 0, duration |-> 0]
NoFile == 0
\* The selection { start: 0, end: 0 } of an editor without a buffer.
NoSelection == [start |-> 0, end |-> 0]
NoError == "none"
\* The absent source node (null in audioSourceRef).
NoSource == [session |-> 0, mode |-> "none", track |-> 0, when |-> 0, offset |-> 0, duration |-> 0, gain |-> 0]

VARIABLES
    \* --- App state (useState), src/unnamed/part_000:12-40
    activeTab, audioFile, audioBuffer, selection, history, historyIndex,
    tracks, isPlaying, currentTime, isLoading, isProcessing, error, volume,
    \* --- App refs (useRef), src/unnamed/part_000:42-51
    audioSourceRef, playbackStartTimeRef, playbackStartOffsetRef, studioSourceNodesRef,
    \* --- environment
    clock,          \* AudioContext.currentTime
    ctxSources,     \* source nodes started on the AudioContext and not stopped
    pendingOps,     \* continuations of async handlers waiting behind their await
    nextBuf,        \* identity of the next AudioBuffer object created
    nextTrack,      \* identity of the next Track created
    heap,           \* the channel data of every AudioBuffer object created
    mixed,          \* what the last call of renderMix returned or threw
    downloads,      \* the files downloadBuffer has handed to the browser
    call,           \* a direct call of an audio utility: its arguments and its outcome
    lastOp          \* the handler or continuation that ran last (observation only)

editorVars == <<audioFile, audioBuffer, selection, history, historyIndex>>
flagVars == <<isLoading, isProcessing, error>>
transportVars == <<isPlaying, currentTime, audioSourceRef, playbackStartTimeRef,
                   playbackStartOffsetRef, studioSourceNodesRef, ctxSources>>
vars == <<activeTab, audioFile, audioBuffer, selection, history, historyIndex,
          tracks, isPlaying, currentTime, isLoading, isProcessing, error, volume,
          audioSourceRef, playbackStartTimeRef, playbackStartOffsetRef,
          studioSourceNodesRef, clock, ctxSources, pendingOps, nextBuf, nextTrack,
          heap, mixed, downloads, call, lastOp>>
outputVars == <<mixed, downloads, call>>

\* ----------------------------------------------------------------- helpers
Max(a, b) == IF a >= b THEN a ELSE b
Min(a, b) == IF a <= b THEN a ELSE b

\* history[i] with the 0-based index of the code.
HistAt(h, i) == h[i + 1]

\* Array.prototype.slice(0, n): the first n entries (none when n <= 0).
Slice0(h, n) == SubSeq(h, 1, Min(Max(n, 0), Len(h)))

\* s without its i-th entry.
RemoveAt(s, i) == SubSeq(s, 1, i - 1) \o SubSeq(s, i + 1, Len(s))

\* A continuation waiting behind an await, with what its closure captured.
Continuation(kind, file, buf, sel, h, hi, effect) ==
    [kind |-> kind, file |-> file, capBuffer |-> buf, capSelection |-> sel,
     capHistory |-> h, capIndex |-> hi, effect |-> effect]

\* ------------------------------------------------------------ audio buffers
\* Sample values are integers: FullScale stands for the sample 1.0, and
\* NoiseThreshold for applyNoiseReduction's threshold 0.02.  NaN is the sample
\* that arithmetic on a read past the end of a Float32Array produces.
FullScale == 100
NoiseThreshold == 2
NaN == -1

\* x * num / den on samples, rounded down; NaN stays NaN.
Scale(x, num, den) == IF x = NaN THEN NaN ELSE (x * num) \div den

\* No AudioBuffer created yet; and the heap h with the new buffer `id`
\* holding `data` (createBuffer and the writes to its channel data).
NoHeap == <<>>
NoMix == [error |-> "none", channels |-> 0, length |-> 0, data |-> <<>>]
\* No audio utility has been called directly.
NoCall == [fn |-> "none", channels |-> 0, data |-> <<>>, start |-> 0, end |-> 0,
           duration |-> 0, error |-> "none", out |-> <<>>]
Alloc(h, id, data) ==
    [i \in DOMAIN h \cup {id} |-> IF i = id THEN data ELSE h[i]]

\* Math.floor(t * sampleRate): the frame at time t.
Frame(t) == t * FramesPerUnit

\* What decodeAudioData makes of file f: a function of the file.
DecodedData(f) ==
    [i \in 1..Frame(FileDuration(f)) |-> IF i % 2 = 1 THEN 40 * f ELSE 1]

Abs(x) == IF x < 0 THEN -x ELSE x

\* The largest of a finite set of naturals, 0 for the empty set.
Peak(S) == IF S = {} THEN 0 ELSE CHOOSE m \in S : \A x \in S : x <= m

\* A trim that copies from the beginning of the input.
trimAudioBuffer_FromZero(data, start, end) ==
    [j \in 1..(Frame(end) - Frame(start)) |->
        IF j <= Len(data) THEN data[j] ELSE 0]

\* trimAudioBuffer: a new buffer of Frame(end) - Frame(start) frames that
\* starts with the frames of `data` from Frame(start), as many as `data`
\* has (subarray clamps to the array), the rest left 0.  Its throw on an
\* empty range is in EffectThrows.
trimAudioBuffer(data, start, end) ==
    [j \in 1..(Frame(end) - Frame(start)) |->
        IF Frame(start) + j <= Len(data) THEN data[Frame(start) + j] ELSE 0]

\* The frames j (1-based) of the range [Frame(start), Frame(end)).
InRange(j, a, b) == a < j /\ j <= b

\* applyNormalize on the channel data of its clone.
applyNormalize(data, start, end) ==
    LET a == Frame(start)
        b == Frame(end)
        read == {data[j] : j \in {k \in DOMAIN data : InRange(k, a, b)}}
        \* Math.max(peak, Math.abs(undefined)) is NaN
        peak == IF b > Len(data) \/ NaN \in read
                   THEN NaN ELSE Peak({Abs(x) : x \in read})
    IN  IF peak = 0
           THEN data
           ELSE [j \in DOMAIN data |->
                    IF ~InRange(j, a, b) THEN data[j]
                    ELSE IF peak = NaN THEN NaN
                    ELSE Scale(data[j], FullScale, peak)]

\* A gate that also silences a sample exactly at the threshold.
applyNoiseReduction_Inclusive(data, start, end) ==
    [j \in DOMAIN data |->
        IF InRange(j, Frame(start), Frame(end)) /\ data[j] # NaN
              /\ Abs(data[j]) <= NoiseThreshold
           THEN 0 ELSE data[j]]

\* applyNoiseReduction on the channel data of its clone: the noise gate.
applyNoiseReduction(data, start, end) ==
    [j \in DOMAIN data |->
        IF InRange(j, Frame(start), Frame(end)) /\ data[j] # NaN
              /\ Abs(data[j]) < NoiseThreshold
           THEN 0 ELSE data[j]]

\* A fade-in that ramps over the whole selection whatever the duration.
applyFadeIn_WholeSelection(data, start, end, duration) ==
    LET startSample == Frame(start)
        endSample == Frame(end)
        length == endSample - startSample
    IN  IF length <= 0
           THEN data
           ELSE [j \in DOMAIN data |->
                    IF InRange(j, startSample, endSample)
                       THEN Scale(data[j], (j - 1) - startSample, length)
                       ELSE data[j]]

\* applyFadeIn on the channel data of its clone: a ramp from 0 over `length`
\* frames from the start of the selection.
applyFadeIn(data, start, end, duration) ==
    LET startSample == Frame(start)
        endSample == Min(startSample + Frame(duration), Frame(end))
        length == endSample - startSample
    IN  IF length <= 0
           THEN data
           ELSE [j \in DOMAIN data |->
                    IF InRange(j, startSample, endSample)
                       THEN Scale(data[j], (j - 1) - startSample, length)
                       ELSE data[j]]

\* A fade-out that ramps over the whole selection whatever the duration.
applyFadeOut_WholeSelection(data, start, end, duration) ==
    LET endSample == Frame(end)
        startSample == Frame(start)
        length == endSample - startSample
    IN  IF length <= 0
           THEN data
           ELSE [j \in DOMAIN data |->
                    IF InRange(j, startSample, endSample)
                       THEN Scale(data[j], length - ((j - 1) - startSample), length)
                       ELSE data[j]]

\* applyFadeOut on the channel data of its clone: a ramp to 0 over `length`
\* frames up to the end of the selection.
applyFadeOut(data, start, end, duration) ==
    LET endSample == Frame(end)
        startSample == Max(Frame(start), endSample - Frame(duration))
        length == endSample - startSample
    IN  IF length <= 0
           THEN data
           ELSE [j \in DOMAIN data |->
                    IF InRange(j, startSample, endSample)
                       THEN Scale(data[j], length - ((j - 1) - startSample), length)
                       ELSE data[j]]

\* The two nodes of applyStudioEffect's offline graph, as what each makes of
\* one sample.  The nodes' filters and envelopes are outside the model; each
\* keeps its static characteristic: the compressor passes a level up to its
\* threshold (-24 dB, 6 hundredths of full scale) and lets the excess through
\* at 1/ratio, the low-shelf filter boosts by 3 dB (7/5, rounded away from 0).
CompressorThreshold == 6
CompressorRatio == 12
compressor(x) ==
    IF x = NaN \/ Abs(x) <= CompressorThreshold THEN x
    ELSE LET y == CompressorThreshold + (Abs(x) - CompressorThreshold) \div CompressorRatio
         IN  IF x < 0 THEN -y ELSE y

eq(x) ==
    IF x = NaN THEN NaN
    ELSE LET y == (Abs(x) * 7 + 4) \div 5
         IN  IF x < 0 THEN -y ELSE y

\* The graph as connected: source -> eq -> compressor -> destination.
StudioChain(x) == compressor(eq(x))

\* A studio effect that writes the rendered range at the start of the clone.
applyStudioEffect_AtZero(data, start, end) ==
    LET trimmedBuffer == trimAudioBuffer(data, start, end)
        renderedBuffer == [j \in DOMAIN trimmedBuffer |-> StudioChain(trimmedBuffer[j])]
    IN  [j \in DOMAIN data |->
            IF InRange(j, 0, Len(renderedBuffer))
               THEN renderedBuffer[j]
               ELSE data[j]]

\* applyStudioEffect: the selection is trimmed out, rendered through the
\* chain, and written over the selection in a clone of the input.
applyStudioEffect(data, start, end) ==
    LET trimmedBuffer == trimAudioBuffer(data, start, end)
        renderedBuffer == [j \in DOMAIN trimmedBuffer |-> StudioChain(trimmedBuffer[j])]
        startSample == Frame(start)
    IN  [j \in DOMAIN data |->
            IF InRange(j, startSample, startSample + Len(renderedBuffer))
               THEN renderedBuffer[j - startSample]
               ELSE data[j]]

\* The fade length of the fade input, and handleApplyFade's actualDuration.
FadeDuration == 1
ActualFade(sel) == Min(FadeDuration, sel.end - sel.start)

\* effectFn(audioBuffer, selection.start, selection.end, ctx) for each of the
\* effect buttons: the channel data of the buffer it returns.
effectFn(effect, data, sel) ==
    CASE effect = "normalize" -> applyNormalize(data, sel.start, sel.end)
      [] effect = "noiseGate" -> applyNoiseReduction(data, sel.start, sel.end)
      [] effect = "fadeIn" -> applyFadeIn(data, sel.start, sel.end, ActualFade(sel))
      [] effect = "fadeOut" -> applyFadeOut(data, sel.start, sel.end, ActualFade(sel))
      [] effect = "studio" -> applyStudioEffect(data, sel.start, sel.end)

\* An effect that processes its input in place before it returns the copy.
cloneAudioBuffer_InPlace(h, src, new, data) ==
    Alloc([h EXCEPT ![src] = data], new, data)

\* cloneAudioBuffer and the writes to the clone: the buffer `new` is created
\* and ends holding `data`; the input `src` is read only.
cloneAudioBuffer(h, src, new, data) ==
    Alloc(h, new, data)

\* ------------------------------------------------------------ WAV output
\* floatTo16BitPCM on one sample: clamped to [-1, 1], then scaled to 16 bits
\* (truncated toward zero by setInt16).
floatTo16BitPCM(x) ==
    LET c == Max(-FullScale, Min(FullScale, x))
    IN  IF c < 0 THEN -(((-c) * 32768) \div FullScale)
                 ELSE (c * 32767) \div FullScale

\* The sum of a sequence of numbers.
RECURSIVE SumSeq(_)
SumSeq(q) == IF q = <<>> THEN 0 ELSE Head(q) + SumSeq(Tail(q))

\* An encoder whose data length field counts the field itself.
audioBufferToWavBlob_DataLengthOff(mix) ==
    LET numOfChan == mix.channels
        length == mix.length * numOfChan * 2 + 44
        Write(o, t, v) == [offset |-> o, text |-> t, value |-> v]
        \* the offset of each write: every write is followed by offset += size
        riff == 0
        riffSize == riff + 4
        wave == riffSize + 4
        fmt == wave + 4
        fmtSize == fmt + 4
        format == fmtSize + 4
        channelCount == format + 2
        sampleRate == channelCount + 2
        byteRate == sampleRate + 4
        blockAlign == byteRate + 4
        bitsPerSample == blockAlign + 2
        dataTag == bitsPerSample + 2
        offset == dataTag + 4
        dataStart == offset + 4
    IN  [bytes |-> length,
         channels |-> numOfChan,
         header |-> << Write(riff, "RIFF", 0), Write(riffSize, "", length - 8),
                       Write(wave, "WAVE", 0), Write(fmt, "fmt ", 0),
                       Write(fmtSize, "", 16), Write(format, "", 1),
                       Write(channelCount, "", numOfChan),
                       Write(sampleRate, "", FramesPerUnit),
                       Write(byteRate, "", FramesPerUnit * 2 * numOfChan),
                       Write(blockAlign, "", numOfChan * 2),
                       Write(bitsPerSample, "", 16), Write(dataTag, "data", 0),
                       Write(offset, "", length - offset) >>,
         samples |-> [k \in 1..(mix.length * numOfChan) |->
                         floatTo16BitPCM(mix.data[((k - 1) \div numOfChan) + 1])],
         \* interleaved[index++] = channels[j][i], frames outside, channels
         \* inside; floatTo16BitPCM writes entry k at dataStart + 2k
         pcm |-> [k \in 1..(mix.length * numOfChan) |->
                     [offset |-> dataStart + 2 * (k - 1),
                      frame |-> (k - 1) \div numOfChan,
                      channel |-> (k - 1) % numOfChan]]]

\* audioBufferToWavBlob: the header, written field by field at a running
\* offset, and the interleaved 16-bit samples of the channels (each channel
\* carries mix.data; the sample rate is FramesPerUnit): `samples` are the
\* values in the order written, `pcm` tells where each was written and which
\* frame and channel it came from.
audioBufferToWavBlob(mix) ==
    LET numOfChan == mix.channels
        length == mix.length * numOfChan * 2 + 44
        Write(o, t, v) == [offset |-> o, text |-> t, value |-> v]
        \* the offset of each write: every write is followed by offset += size
        riff == 0
        riffSize == riff + 4
        wave == riffSize + 4
        fmt == wave + 4
        fmtSize == fmt + 4
        format == fmtSize + 4
        channelCount == format + 2
        sampleRate == channelCount + 2
        byteRate == sampleRate + 4
        blockAlign == byteRate + 4
        bitsPerSample == blockAlign + 2
        dataTag == bitsPerSample + 2
        offset == dataTag + 4
        dataStart == offset + 4
    IN  [bytes |-> length,
         channels |-> numOfChan,
         header |-> << Write(riff, "RIFF", 0), Write(riffSize, "", length - 8),
                       Write(wave, "WAVE", 0), Write(fmt, "fmt ", 0),
                       Write(fmtSize, "", 16), Write(format, "", 1),
                       Write(channelCount, "", numOfChan),
                       Write(sampleRate, "", FramesPerUnit),
                       Write(byteRate, "", FramesPerUnit * 2 * numOfChan),
                       Write(blockAlign, "", numOfChan * 2),
                       Write(bitsPerSample, "", 16), Write(dataTag, "data", 0),
                       Write(offset, "", length - offset - 4) >>,
         samples |-> [k \in 1..(mix.length * numOfChan) |->
                         floatTo16BitPCM(mix.data[((k - 1) \div numOfChan) + 1])],
         \* interleaved[index++] = channels[j][i], frames outside, channels
         \* inside; floatTo16BitPCM writes entry k at dataStart + 2k
         pcm |-> [k \in 1..(mix.length * numOfChan) |->
                     [offset |-> dataStart + 2 * (k - 1),
                      frame |-> (k - 1) \div numOfChan,
                      channel |-> (k - 1) % numOfChan]]]

\* downloadBuffer(buffer, filenameBase): the file the anchor click hands to
\* the browser.
downloadBuffer(mix, filenameBase) ==
    downloads' = Append(downloads, [name |-> filenameBase, wav |-> audioBufferToWavBlob(mix)])

\* --------------------------------------------------------- history manager
\* A commit that appends without dropping the entries after the index.
updateHistory_NoTruncate(h, hi, newBuffer) ==
    /\ history' = Append(h, newBuffer)
    /\ historyIndex' = hi + 1
    /\ audioBuffer' = newBuffer

\* updateHistory(newBuffer) as created in a render whose history and
\* historyIndex were h and hi (the useCallback closure).
updateHistory(h, hi, newBuffer) ==
    LET newHistory == Append(Slice0(h, hi + 1), newBuffer)
    IN  /\ history' = newHistory
        /\ historyIndex' = Len(newHistory) - 1
        /\ audioBuffer' = newBuffer

\* An undo that also steps back from index 0.
handleUndo_OffByOne ==
    /\ IF historyIndex >= 0
          THEN /\ historyIndex' = historyIndex - 1
               /\ audioBuffer' = IF historyIndex - 1 >= 0
                                    THEN HistAt(history, historyIndex - 1)
                                    ELSE NoBuffer
          ELSE UNCHANGED <<historyIndex, audioBuffer>>
    /\ UNCHANGED history

\* The history state the undo and redo handlers read and write.
HistoryState == [history |-> history, historyIndex |-> historyIndex,
                 audioBuffer |-> audioBuffer]

\* An undo that drops the snapshots after the one it makes current.
Undone_Truncates(st) ==
    IF st.historyIndex > 0
        THEN [history |-> SubSeq(st.history, 1, st.historyIndex),
              historyIndex |-> st.historyIndex - 1,
              audioBuffer |-> HistAt(st.history, st.historyIndex - 1)]
        ELSE st

\* The history state handleUndo leaves when it runs in history state st.
Undone(st) ==
    IF st.historyIndex > 0
        THEN [history |-> st.history,
              historyIndex |-> st.historyIndex - 1,
              audioBuffer |-> HistAt(st.history, st.historyIndex - 1)]
        ELSE st

\* The history state handleRedo leaves when it runs in history state st.
Redone(st) ==
    IF st.historyIndex < Len(st.history) - 1
        THEN [history |-> st.history,
              historyIndex |-> st.historyIndex + 1,
              audioBuffer |-> HistAt(st.history, st.historyIndex + 1)]
        ELSE st

\* handleUndo: step back one snapshot when there is one.
handleUndo ==
    /\ historyIndex' = Undone(HistoryState).historyIndex
    /\ audioBuffer' = Undone(HistoryState).audioBuffer
    /\ history' = Undone(HistoryState).history

\* A redo that also steps forward from the last snapshot.
handleRedo_OffByOne ==
    /\ IF historyIndex < Len(history)
          THEN /\ historyIndex' = historyIndex + 1
               /\ audioBuffer' = IF historyIndex + 1 < Len(history)
                                    THEN HistAt(history, historyIndex + 1)
                                    ELSE NoBuffer
          ELSE UNCHANGED <<historyIndex, audioBuffer>>
    /\ UNCHANGED history

\* handleRedo: step forward one snapshot when there is one.
handleRedo ==
    /\ historyIndex' = Redone(HistoryState).historyIndex
    /\ audioBuffer' = Redone(HistoryState).audioBuffer
    /\ history' = Redone(HistoryState).history

\* loadEditorFile, up to its await: the resets, and the continuation that
\* keeps the updateHistory of the render in which the file was chosen.
\* A load that leaves the previous buffer current while the file decodes.
loadEditorFile_KeepsBuffer(file) ==
    /\ isLoading' = TRUE
    /\ error' = NoError
    /\ audioFile' = file
    /\ UNCHANGED audioBuffer
    /\ currentTime' = 0
    /\ selection' = NoSelection
    /\ history' = <<>>
    /\ historyIndex' = -1
    /\ pendingOps' = Append(pendingOps,
            Continuation("load", file, NoBuffer, NoSelection, history, historyIndex, "none"))

loadEditorFile(file) ==
    /\ isLoading' = TRUE
    /\ error' = NoError
    /\ audioFile' = file
    /\ audioBuffer' = NoBuffer
    /\ currentTime' = 0
    /\ selection' = NoSelection
    /\ history' = <<>>
    /\ historyIndex' = -1
    /\ pendingOps' = Append(pendingOps,
            Continuation("load", file, NoBuffer, NoSelection, history, historyIndex, "none"))

\* loadEditorFile, after its await: decode resolved with `buffer`.
loadEditorFileResolved(op, buffer) ==
    /\ heap' = Alloc(heap, buffer.id, DecodedData(op.file))
    /\ selection' = [start |-> 0, end |-> buffer.duration]
    /\ updateHistory(op.capHistory, op.capIndex, buffer)
    /\ isLoading' = FALSE
    /\ UNCHANGED error

\* loadEditorFile, after its await: decode rejected.
loadEditorFileRejected(op) ==
    /\ UNCHANGED heap
    /\ error' = "decode"
    /\ isLoading' = FALSE
    /\ UNCHANGED <<selection, history, historyIndex, audioBuffer>>

\* The effect the history manager is exercised with: the one that can throw
\* as well as return a buffer.
Effects == {"studio"}

\* trimAudioBuffer's frame count: it throws when this is <= 0.
TrimFrameCount(start, end) == Frame(end) - Frame(start)

\* Whether effectFn(buffer, start, end) throws: only applyStudioEffect does,
\* in trimAudioBuffer on an empty range, and in the final set() when the
\* rendered range does not fit into the clone of `buffer`.
EffectThrows(effect, sel, buffer) ==
    /\ effect = "studio"
    /\ \/ TrimFrameCount(sel.start, sel.end) <= 0
       \/ Frame(sel.end) > Frame(buffer.duration)

\* handleEffect, up to its first await.
handleEffect(effect) ==
    /\ audioBuffer # NoBuffer
    /\ isProcessing' = TRUE
    /\ error' = NoError
    /\ pendingOps' = Append(pendingOps,
            Continuation("effect", audioFile, audioBuffer, selection, history, historyIndex, effect))

\* handleEffect, after its awaits: the effect returned `newBuffer`.
handleEffectResolved(op, newBuffer) ==
    /\ heap' = cloneAudioBuffer(heap, op.capBuffer.id, newBuffer.id,
                                effectFn(op.effect, heap[op.capBuffer.id], op.capSelection))
    /\ updateHistory(op.capHistory, op.capIndex, newBuffer)
    /\ isProcessing' = FALSE
    /\ UNCHANGED error

\* A failing effect that commits its input once more.
handleEffectRejected_CommitsInput(op) ==
    /\ UNCHANGED heap
    /\ error' = "effect"
    /\ isProcessing' = FALSE
    /\ updateHistory(op.capHistory, op.capIndex, op.capBuffer)

\* A failing effect that leaves the processing flag set.
handleEffectRejected_KeepsFlag(op) ==
    /\ UNCHANGED heap
    /\ error' = "effect"
    /\ UNCHANGED isProcessing
    /\ UNCHANGED <<history, historyIndex, audioBuffer>>

\* handleEffect, after its awaits: the effect threw.
handleEffectRejected(op) ==
    /\ UNCHANGED heap
    /\ error' = "effect"
    /\ isProcessing' = FALSE
    /\ UNCHANGED <<history, historyIndex, audioBuffer>>

\* handleApplyFade(effect): a selection shorter than 0.1 units is reported
\* and nothing is processed; otherwise handleEffect runs the fade.
handleApplyFade(effect) ==
    IF 10 * ActualFade(selection) < 1
       THEN /\ error' = "selection too short"
            /\ UNCHANGED <<isProcessing, pendingOps>>
       ELSE IF audioBuffer # NoBuffer
               THEN handleEffect(effect)
               ELSE UNCHANGED <<isProcessing, error, pendingOps>>

\* handleTrimAndDownload: the selection is trimmed out into a new buffer,
\* which is downloaded; trimAudioBuffer's throw is reported.
handleTrimAndDownload ==
    IF audioBuffer = NoBuffer
       THEN UNCHANGED <<error, downloads>>
       ELSE IF TrimFrameCount(selection.start, selection.end) <= 0
               THEN /\ error' = "trim"
                    /\ UNCHANGED downloads
               ELSE LET data == trimAudioBuffer(heap[audioBuffer.id],
                                                selection.start, selection.end)
                    IN  /\ downloadBuffer([error |-> "none", channels |-> 1,
                                           length |-> Len(data), data |-> data], "cut")
                        /\ UNCHANGED error

\* ------------------------------------------------------------ editor steps
\* <input type=file onChange> in the editor tab.
ChooseFile ==
    \E f \in Files :
        /\ activeTab = "editor"
        /\ Len(pendingOps) < MaxPending
        /\ loadEditorFile(f)
        /\ lastOp' = "load"
        /\ UNCHANGED <<heap, mixed, downloads, call>>
        /\ UNCHANGED <<activeTab, tracks, isPlaying, isProcessing, volume,
                       audioSourceRef, playbackStartTimeRef, playbackStartOffsetRef,
                       studioSourceNodesRef, clock, ctxSources, nextBuf, nextTrack>>

\* decodeAudioData settles for a pending loadEditorFile.
DecodeSettles ==
    \E i \in 1..Len(pendingOps) :
        /\ pendingOps[i].kind = "load"
        /\ pendingOps' = RemoveAt(pendingOps, i)
        /\ \/ /\ nextBuf <= MaxBuffers
              /\ loadEditorFileResolved(pendingOps[i],
                      [id |-> nextBuf, file |-> pendingOps[i].file,
                       duration |-> FileDuration(pendingOps[i].file)])
              /\ nextBuf' = nextBuf + 1
              /\ lastOp' = "loaded"
           \/ /\ loadEditorFileRejected(pendingOps[i])
              /\ lastOp' = "loadFailed"
              /\ UNCHANGED nextBuf
        /\ UNCHANGED outputVars
        /\ UNCHANGED <<activeTab, audioFile, tracks, isPlaying, currentTime, isProcessing,
                       volume, audioSourceRef, playbackStartTimeRef, playbackStartOffsetRef,
                       studioSourceNodesRef, clock, ctxSources, nextTrack>>

\* One of the effect buttons (disabled while isProcessing; rendered only in
\* the editor tab with a buffer loaded).
EffectButton(e) ==
    /\ activeTab = "editor"
    /\ ~isProcessing
    /\ Len(pendingOps) < MaxPending
    /\ handleEffect(e)
    /\ lastOp' = "effect"
    /\ UNCHANGED <<heap, mixed, downloads, call>>
    /\ UNCHANGED <<activeTab, audioFile, audioBuffer, selection, history, historyIndex,
                   tracks, isPlaying, currentTime, isLoading, volume,
                   audioSourceRef, playbackStartTimeRef, playbackStartOffsetRef,
                   studioSourceNodesRef, clock, ctxSources, nextBuf, nextTrack>>

ApplyEffect ==
    \E e \in Effects : EffectButton(e)

\* The Normalize, noise-gate and studio buttons.
ButtonEffects == {"normalize", "noiseGate", "studio"}

AnyEffectButton ==
    \E e \in ButtonEffects : EffectButton(e)

\* The Fade In and Fade Out buttons (disabled while isProcessing).
FadeButton ==
    \E e \in {"fadeIn", "fadeOut"} :
        /\ activeTab = "editor"
        /\ audioBuffer # NoBuffer
        /\ ~isProcessing
        /\ Len(pendingOps) < MaxPending
        /\ handleApplyFade(e)
        /\ lastOp' = IF 10 * ActualFade(selection) < 1 THEN "fadeRefused" ELSE "effect"
        /\ UNCHANGED <<heap, mixed, downloads, call>>
        /\ UNCHANGED <<activeTab, audioFile, audioBuffer, selection, history, historyIndex,
                       tracks, isPlaying, currentTime, isLoading, volume,
                       audioSourceRef, playbackStartTimeRef, playbackStartOffsetRef,
                       studioSourceNodesRef, clock, ctxSources, nextBuf, nextTrack>>

\* The cut-and-download button (disabled while isProcessing).
TrimAndDownload ==
    /\ activeTab = "editor"
    /\ audioBuffer # NoBuffer
    /\ ~isProcessing
    /\ Len(downloads) < MaxDownloads
    /\ handleTrimAndDownload
    /\ lastOp' = "trim"
    /\ UNCHANGED <<heap, mixed, call>>
    /\ UNCHANGED <<activeTab, audioFile, audioBuffer, selection, history, historyIndex,
                   tracks, isPlaying, currentTime, isLoading, isProcessing, volume,
                   audioSourceRef, playbackStartTimeRef, playbackStartOffsetRef,
                   studioSourceNodesRef, clock, ctxSources, pendingOps, nextBuf,
                   nextTrack>>

\* The effect of a pending handleEffect finishes.
EffectSettles ==
    \E i \in 1..Len(pendingOps) :
        LET op == pendingOps[i] IN
        /\ op.kind = "effect"
        /\ pendingOps' = RemoveAt(pendingOps, i)
        /\ IF EffectThrows(op.effect, op.capSelection, op.capBuffer)
              THEN /\ handleEffectRejected(op)
                   /\ lastOp' = "effectFailed"
                   /\ UNCHANGED nextBuf
              ELSE /\ nextBuf <= MaxBuffers
                   /\ handleEffectResolved(op,
                          [id |-> nextBuf, file |-> op.capBuffer.file,
                           duration |-> op.capBuffer.duration])
                   /\ nextBuf' = nextBuf + 1
                   /\ lastOp' = "effectDone"
        /\ UNCHANGED outputVars
        /\ UNCHANGED <<activeTab, audioFile, selection, tracks, isPlaying, currentTime,
                       isLoading, volume, audioSourceRef, playbackStartTimeRef,
                       playbackStartOffsetRef, studioSourceNodesRef, clock, ctxSources,
                       nextTrack>>

\* undo(): the button's own `historyIndex <= 0` guard repeats the handler's
\* and is left to the handler; the button is disabled while isProcessing.
Undo ==
    /\ ~isProcessing
    /\ handleUndo
    /\ lastOp' = "undo"
    /\ UNCHANGED <<heap, mixed, downloads, call>>
    /\ UNCHANGED <<activeTab, audioFile, selection, tracks, isPlaying, currentTime,
                   isLoading, isProcessing, error, volume, audioSourceRef,
                   playbackStartTimeRef, playbackStartOffsetRef, studioSourceNodesRef,
                   clock, ctxSources, pendingOps, nextBuf, nextTrack>>

\* redo(): as Undo.
Redo ==
    /\ ~isProcessing
    /\ handleRedo
    /\ lastOp' = "redo"
    /\ UNCHANGED <<heap, mixed, downloads, call>>
    /\ UNCHANGED <<activeTab, audioFile, selection, tracks, isPlaying, currentTime,
                   isLoading, isProcessing, error, volume, audioSourceRef,
                   playbackStartTimeRef, playbackStartOffsetRef, studioSourceNodesRef,
                   clock, ctxSources, pendingOps, nextBuf, nextTrack>>

\* The brush 'end' handler of the waveform: a non-empty brush [x0, x1] of
\* the displayed buffer, or the whole buffer when the brush is cleared.
BrushEnd ==
    \E s \in 0..MaxT, e \in 0..MaxT :
        /\ activeTab = "editor"
        /\ audioBuffer # NoBuffer
        /\ s < e
        /\ e <= audioBuffer.duration
        /\ selection' = [start |-> s, end |-> e]
        /\ lastOp' = "other"
        /\ UNCHANGED <<heap, mixed, downloads, call>>
        /\ UNCHANGED <<activeTab, audioFile, audioBuffer, history, historyIndex,
                       tracks, isPlaying, currentTime, isLoading, isProcessing, error,
                       volume, audioSourceRef, playbackStartTimeRef,
                       playbackStartOffsetRef, studioSourceNodesRef, clock, ctxSources,
                       pendingOps, nextBuf, nextTrack>>

\* "Set start" and "Set end" of the waveform's context menu, opened at
\* `time` (handleContextMenu clamps it to the displayed buffer): the start
\* moves when it stays before the end, the end when it stays after the start.
handleSetStart(time) ==
    LET newStart == Max(0, time)
    IN  selection' = IF newStart < selection.end
                        THEN [start |-> newStart, end |-> selection.end]
                        ELSE selection

handleSetEnd(time) ==
    LET newEnd == Min(audioBuffer.duration, time)
    IN  selection' = IF newEnd > selection.start
                        THEN [start |-> selection.start, end |-> newEnd]
                        ELSE selection

ContextMenuSelect ==
    \E time \in 0..MaxT :
        /\ activeTab = "editor"
        /\ audioBuffer # NoBuffer
        /\ time <= audioBuffer.duration
        /\ \/ handleSetStart(time)
           \/ handleSetEnd(time)
        /\ lastOp' = "other"
        /\ UNCHANGED <<heap, mixed, downloads, call>>
        /\ UNCHANGED <<activeTab, audioFile, audioBuffer, history, historyIndex,
                       tracks, isPlaying, currentTime, isLoading, isProcessing, error,
                       volume, audioSourceRef, playbackStartTimeRef,
                       playbackStartOffsetRef, studioSourceNodesRef, clock, ctxSources,
                       pendingOps, nextBuf, nextTrack>>

\* ------------------------------------------------------------ the editor
Init ==
    /\ activeTab = "editor"
    /\ audioFile = NoFile
    /\ audioBuffer = NoBuffer
    /\ selection = NoSelection
    /\ history = <<>>
    /\ historyIndex = -1
    /\ tracks = <<>>
    /\ isPlaying = FALSE
    /\ currentTime = 0
    /\ isLoading = FALSE
    /\ isProcessing = FALSE
    /\ error = NoError
    /\ volume = 10
    /\ audioSourceRef = NoSource
    /\ playbackStartTimeRef = 0
    /\ playbackStartOffsetRef = 0
    /\ studioSourceNodesRef = <<>>
    /\ clock = 0
    /\ ctxSources = {}
    /\ pendingOps = <<>>
    /\ nextBuf = 1
    /\ nextTrack = 1
    /\ heap = NoHeap
    /\ mixed = NoMix
    /\ downloads = <<>>
    /\ call = NoCall
    /\ lastOp = "init"

Next ==
    \/ ChooseFile
    \/ DecodeSettles
    \/ ApplyEffect
    \/ EffectSettles
    \/ Undo
    \/ Redo

Spec == Init /\ [][Next]_vars

\* The editor with the selection changed by the brush and the context menu
\* between the loads, effects, undos and redos.
SelectionNext ==
    \/ Next
    \/ BrushEnd
    \/ ContextMenuSelect

SelectionSpec == Init /\ [][SelectionNext]_vars

\* ------------------------------------------------------ transport scheduler
\* The set of entries of a sequence.
Range(q) == {q[i] : i \in DOMAIN q}

\* A source node started on the AudioContext by the `session`-th call of
\* startPlayback still sounding: it starts at clock reading `when` and plays
\* `duration` units of its buffer from `offset`, through a gain of `gain`.
SourceNode(session, mode, track, when, offset, duration, gain) ==
    [session |-> session, mode |-> mode, track |-> track, when |-> when,
     offset |-> offset, duration |-> duration, gain |-> gain]

\* The identity of a new playback session: one that no sounding source has.
FreshSession(sounding) ==
    CHOOSE n \in 1..(Cardinality(sounding) + 1) : \A x \in sounding : x.session # n

\* A stopAllAudio that stops the editor's source and forgets the studio's.
StoppedByStopAll_EditorOnly ==
    IF audioSourceRef = NoSource THEN {} ELSE {audioSourceRef}

\* The sources stopAllAudio stops: the ones the two refs hold.
StoppedByStopAll ==
    (IF audioSourceRef = NoSource THEN {} ELSE {audioSourceRef})
        \cup Range(studioSourceNodesRef)

\* stopAllAudio: stop and disconnect what the refs hold, then clear the refs.
stopAllAudio ==
    /\ ctxSources' = ctxSources \ StoppedByStopAll
    /\ audioSourceRef' = NoSource
    /\ studioSourceNodesRef' = <<>>

\* An offset that is not raised to the start of the selection.
EditorOffset_NoClamp(startOffset) ==
    IF startOffset >= selection.end
        THEN selection.start
        ELSE startOffset

\* The editor's playback offset for a requested start position.
EditorOffset(startOffset) ==
    IF startOffset >= selection.end
        THEN selection.start
        ELSE Max(selection.start, startOffset)

\* A schedule that also starts a track that ends exactly at P.
ScheduledTracks_KeepsFinished(P) ==
    LET Keep(t) == ~t.isMuted /\ ~(t.startTime + t.buffer.duration < P)
    IN  SelectSeq(tracks, Keep)

\* The tracks startPlayback schedules at position P, in track order.
ScheduledTracks(P) ==
    LET Keep(t) == ~t.isMuted /\ ~(t.startTime + t.buffer.duration <= P)
    IN  SelectSeq(tracks, Keep)

\* The readings of ctx.currentTime a handler can get after its first one:
\* the audio thread advances the clock while the handler runs, so a later
\* read in the same handler returns the same reading or a later one.
ClockReadings == {clock} \cup (IF clock < MaxClock THEN {clock + 1} ELSE {})

\* A schedule that starts a track in progress at P from its beginning.
StudioSource_FromStart(t, P, session, now) ==
    IF t.startTime >= P
        THEN SourceNode(session, "studio", t.id, now + (t.startTime - P), 0,
                        t.buffer.duration, t.volume)
        ELSE SourceNode(session, "studio", t.id, now, 0,
                        t.buffer.duration, t.volume)

\* The source startPlayback starts for track t at position P, `now` being
\* the reading of ctx.currentTime when the track's turn comes in the forEach:
\* source.start(ctx.currentTime + when, 0) for a track that starts at or
\* after P, source.start(0, offsetInTrack) for a track in progress at P.
StudioSource(t, P, session, now) ==
    IF t.startTime >= P
        THEN SourceNode(session, "studio", t.id, now + (t.startTime - P), 0,
                        t.buffer.duration, t.volume)
        ELSE SourceNode(session, "studio", t.id, now, P - t.startTime,
                        t.buffer.duration - (P - t.startTime), t.volume)

\* startPlayback(startOffset).  keepTime and keepOffset are the values the
\* caller has given currentTime and playbackStartOffsetRef before the call:
\* they stay when startPlayback does not set them.
startPlayback(startOffset, keepTime, keepOffset) ==
    LET left == ctxSources \ StoppedByStopAll      \* stopAllAudio()
        session == FreshSession(left)
    IN
    IF activeTab = "editor"
    THEN IF audioBuffer = NoBuffer
         THEN /\ stopAllAudio
              /\ currentTime' = keepTime
              /\ playbackStartOffsetRef' = keepOffset
              /\ UNCHANGED <<playbackStartTimeRef, isPlaying, clock>>
         ELSE LET offset == EditorOffset(startOffset)
                  \* `duration <= 0`: reset to the selection start
                  from == IF selection.end - offset <= 0 THEN selection.start ELSE offset
                  source == SourceNode(session, "editor", 0, clock, from,
                                       selection.end - from, volume)
              IN  /\ currentTime' = from
                  /\ playbackStartOffsetRef' = from
                  /\ audioSourceRef' = source
                  /\ studioSourceNodesRef' = <<>>
                  /\ ctxSources' = left \cup {source}
                  /\ playbackStartTimeRef' = clock
                  /\ isPlaying' = TRUE
                  /\ UNCHANGED clock
    ELSE IF Len(tracks) = 0
         THEN /\ stopAllAudio
              /\ currentTime' = keepTime
              /\ playbackStartOffsetRef' = keepOffset
              /\ UNCHANGED <<playbackStartTimeRef, isPlaying, clock>>
         ELSE \* the forEach reads the clock once per delayed track and the
              \* anchoring reads it once more: the first k tracks are
              \* scheduled before the clock advances to `anchor`
              \E anchor \in ClockReadings :
              \E k \in 0..Len(ScheduledTracks(startOffset)) :
              LET sched == ScheduledTracks(startOffset)
                  nodes == [i \in 1..Len(sched) |->
                               StudioSource(sched[i], startOffset, session,
                                            IF i <= k THEN clock ELSE anchor)]
              IN  /\ anchor = clock => k = Len(sched)
                  /\ studioSourceNodesRef' = nodes
                  /\ audioSourceRef' = NoSource
                  /\ ctxSources' = left \cup Range(nodes)
                  /\ currentTime' = keepTime
                  /\ playbackStartOffsetRef' = startOffset
                  /\ playbackStartTimeRef' = anchor
                  /\ isPlaying' = TRUE
                  /\ clock' = anchor

\* The position the transport derives from the clock and the two anchors.
ElapsedPosition == playbackStartOffsetRef + (clock - playbackStartTimeRef)

\* A pause that leaves the sources sounding.
handlePlayPause_PauseKeepsSources ==
    IF isPlaying
        THEN /\ UNCHANGED <<ctxSources, audioSourceRef, studioSourceNodesRef>>
             /\ isPlaying' = FALSE
             /\ currentTime' = ElapsedPosition
             /\ playbackStartOffsetRef' = ElapsedPosition
             /\ UNCHANGED <<playbackStartTimeRef, clock>>
        ELSE startPlayback(currentTime, currentTime, playbackStartOffsetRef)

\* handlePlayPause: pause at the elapsed position, or play from currentTime.
handlePlayPause ==
    IF isPlaying
        THEN /\ stopAllAudio
             /\ isPlaying' = FALSE
             /\ currentTime' = ElapsedPosition
             /\ playbackStartOffsetRef' = ElapsedPosition
             /\ UNCHANGED <<playbackStartTimeRef, clock>>
        ELSE startPlayback(currentTime, currentTime, playbackStartOffsetRef)

\* handleSeek: move the position, and re-play from it when playing.
handleSeek(time) ==
    LET newTime == Max(0, time) IN
    IF isPlaying
        THEN startPlayback(newTime, newTime, newTime)
        ELSE /\ currentTime' = newTime
             /\ playbackStartOffsetRef' = newTime
             /\ UNCHANGED <<isPlaying, audioSourceRef, playbackStartTimeRef,
                            studioSourceNodesRef, ctxSources, clock>>

\* A frame that advances the published position by one unit per frame instead
\* of deriving it from the clock.
PlaybackLoop_Accumulates ==
    LET newCurrentTime == currentTime + 1 IN
    IF activeTab = "editor" /\ newCurrentTime >= selection.end
        THEN /\ currentTime' = selection.end
             /\ isPlaying' = FALSE
             /\ stopAllAudio
             /\ UNCHANGED <<playbackStartTimeRef, playbackStartOffsetRef>>
        ELSE /\ currentTime' = newCurrentTime
             /\ UNCHANGED <<isPlaying, audioSourceRef, playbackStartTimeRef,
                            playbackStartOffsetRef, studioSourceNodesRef, ctxSources>>

\* A frame that never stops at the end of the selection.
PlaybackLoop_NoClamp ==
    IF activeTab = "editor" /\ ElapsedPosition >= selection.end
        THEN /\ currentTime' = ElapsedPosition
             /\ isPlaying' = FALSE
             /\ stopAllAudio
             /\ UNCHANGED <<playbackStartTimeRef, playbackStartOffsetRef>>
        ELSE /\ currentTime' = ElapsedPosition
             /\ UNCHANGED <<isPlaying, audioSourceRef, playbackStartTimeRef,
                            playbackStartOffsetRef, studioSourceNodesRef, ctxSources>>

\* One run of `loop`, the requestAnimationFrame callback of the playback
\* loop effect.
PlaybackLoop ==
    IF activeTab = "editor" /\ ElapsedPosition >= selection.end
        THEN /\ currentTime' = selection.end
             /\ isPlaying' = FALSE
             /\ stopAllAudio
             /\ UNCHANGED <<playbackStartTimeRef, playbackStartOffsetRef>>
        ELSE /\ currentTime' = ElapsedPosition
             /\ UNCHANGED <<isPlaying, audioSourceRef, playbackStartTimeRef,
                            playbackStartOffsetRef, studioSourceNodesRef, ctxSources>>

\* A tab switch that clears isPlaying without stopping the sources.
switchTab_KeepsSources(tab) ==
    /\ activeTab' = tab
    /\ isPlaying' = FALSE
    /\ UNCHANGED <<ctxSources, audioSourceRef, studioSourceNodesRef>>
    /\ UNCHANGED <<currentTime, playbackStartTimeRef, playbackStartOffsetRef>>

\* The tab switcher's onClick.
switchTab(tab) ==
    /\ activeTab' = tab
    /\ stopAllAudio
    /\ isPlaying' = FALSE
    /\ UNCHANGED <<currentTime, playbackStartTimeRef, playbackStartOffsetRef>>

\* addTrackToStudio, up to its await.
addTrackToStudio(file) ==
    /\ isLoading' = TRUE
    /\ error' = NoError
    /\ pendingOps' = Append(pendingOps,
            Continuation("track", file, NoBuffer, NoSelection, <<>>, -1, "none"))

\* An add that writes back the tracks as they were when they were added,
\* without the updates made since.
addTrackToStudioResolved_LosesUpdates(op, buffer) ==
    /\ heap' = Alloc(heap, buffer.id, DecodedData(op.file))
    /\ tracks' = Append([i \in DOMAIN tracks |->
                            [tracks[i] EXCEPT !.startTime = 0, !.volume = 10,
                                              !.isMuted = FALSE]],
                        [id |-> nextTrack, file |-> op.file, buffer |-> buffer,
                         startTime |-> 0, volume |-> 10, isMuted |-> FALSE])
    /\ isLoading' = FALSE
    /\ UNCHANGED error

\* addTrackToStudio, after its await: decode resolved with `buffer`.
addTrackToStudioResolved(op, buffer) ==
    /\ heap' = Alloc(heap, buffer.id, DecodedData(op.file))
    /\ tracks' = Append(tracks, [id |-> nextTrack, file |-> op.file, buffer |-> buffer,
                                 startTime |-> 0, volume |-> 10, isMuted |-> FALSE])
    /\ isLoading' = FALSE
    /\ UNCHANGED error

\* addTrackToStudio, after its await: decode rejected.
addTrackToStudioRejected(op) ==
    /\ UNCHANGED heap
    /\ error' = "track"
    /\ isLoading' = FALSE
    /\ UNCHANGED tracks

\* updateTrack(id, { startTime }) and updateTrack(id, { isMuted }).
updateTrackStartTime(id, startTime) ==
    tracks' = [i \in DOMAIN tracks |->
                  IF tracks[i].id = id THEN [tracks[i] EXCEPT !.startTime = startTime]
                                       ELSE tracks[i]]

updateTrackMuted(id, muted) ==
    tracks' = [i \in DOMAIN tracks |->
                  IF tracks[i].id = id THEN [tracks[i] EXCEPT !.isMuted = muted]
                                       ELSE tracks[i]]

\* A drag that does not stop at 0.
handleMouseMove_NoClamp(id, newStartTime) ==
    updateTrackStartTime(id, newStartTime)

\* handleMouseMove of the timeline: the dragged bar's new start,
\* initialStartTime + deltaTime, is clamped at 0 and handed to updateTrack.
handleMouseMove(id, newStartTime) ==
    updateTrackStartTime(id, Max(0, newStartTime))

removeTrack(id) ==
    LET Keep(t) == t.id # id IN tracks' = SelectSeq(tracks, Keep)

\* updateTrack(id, { volume }): the volume slider of a track.
updateTrackVolume(id, v) ==
    tracks' = [i \in DOMAIN tracks |->
                  IF tracks[i].id = id THEN [tracks[i] EXCEPT !.volume = v]
                                       ELSE tracks[i]]

\* ------------------------------------------------------------ the mixdown
\* The gain value 1 (gains are counted in tenths).
UnitGain == 10

\* A source that skips no track: muted tracks are connected as well.
MixSources_WithMuted(trks) ==
    [i \in DOMAIN trks |->
        SourceNode(0, "mix", trks[i].id, trks[i].startTime, 0,
                   trks[i].buffer.duration, trks[i].volume)]

\* The sources renderMix connects to the offline context, in track order:
\* one per track that is not muted, started at the track's startTime from
\* the beginning of its buffer, through a gain of the track's volume.
MixSources(trks) ==
    LET Keep(t) == ~t.isMuted
        kept == SelectSeq(trks, Keep)
    IN  [i \in DOMAIN kept |->
            SourceNode(0, "mix", kept[i].id, kept[i].startTime, 0,
                       kept[i].buffer.duration, kept[i].volume)]

\* A duration without the trailing pad.
TotalFrames_NoPad(trks, sampleRate) ==
    LET ends == {trks[i].startTime + trks[i].buffer.duration : i \in DOMAIN trks}
    IN  Peak(ends) * sampleRate

\* Math.ceil(totalDuration * sampleRate), totalDuration being the latest
\* end of a track plus 0.5.
TotalFrames(trks, sampleRate) ==
    LET ends == {trks[i].startTime + trks[i].buffer.duration : i \in DOMAIN trks}
    IN  ((2 * Peak(ends) + 1) * sampleRate + 1) \div 2

\* What a source contributes to output frame j (1-based) of a rendering at
\* `sampleRate`: the sample of its track's buffer at that frame, times gain.
SourceSample(n, trks, h, sampleRate, j) ==
    LET t == CHOOSE x \in Range(trks) : x.id = n.track
        data == h[t.buffer.id]
        k == j - n.when * sampleRate
    IN  IF 1 <= k /\ k <= Len(data) THEN Scale(data[k], n.gain, UnitGain) ELSE 0

\* A renderMix without the guard: an empty list renders the pad of silence.
renderMix_NoGuard(trks, h, sampleRate) ==
    LET sources == MixSources(trks)
        length == TotalFrames(trks, sampleRate)
    IN  [error |-> "none", channels |-> 2, length |-> length,
         data |-> [j \in 1..length |->
                      SumSeq([i \in DOMAIN sources |->
                                 SourceSample(sources[i], trks, h, sampleRate, j)])]]

\* renderMix(tracks, sampleRate) over the buffers of heap h: what it throws,
\* or the buffer startRendering resolves with (both channels carry `data`,
\* the buffers being mono).
renderMix(trks, h, sampleRate) ==
    IF Len(trks) = 0
       THEN [error |-> "No tracks to render", channels |-> 0, length |-> 0, data |-> <<>>]
       ELSE LET sources == MixSources(trks)
                length == TotalFrames(trks, sampleRate)
            IN  [error |-> "none", channels |-> 2, length |-> length,
                 data |-> [j \in 1..length |->
                              SumSeq([i \in DOMAIN sources |->
                                         SourceSample(sources[i], trks, h, sampleRate, j)])]]

\* ------------------------------------------------------------- the export
\* The continuation of handleExportMix, with the tracks of its closure.
ExportContinuation(trks) ==
    [kind |-> "export", file |-> NoFile, capBuffer |-> NoBuffer,
     capSelection |-> NoSelection, capHistory |-> <<>>, capIndex |-> -1,
     effect |-> "none", capTracks |-> trks]

\* handleExportMix, up to its first await (it returns at once on an empty
\* track list).
handleExportMix ==
    IF Len(tracks) = 0
       THEN UNCHANGED <<isProcessing, pendingOps>>
       ELSE /\ isProcessing' = TRUE
            /\ pendingOps' = Append(pendingOps, ExportContinuation(tracks))

\* An export that renders the tracks of the render current at completion.
handleExportMixResolved_LiveTracks(op) ==
    /\ mixed' = renderMix(tracks, heap, FramesPerUnit)
    /\ downloadBuffer(mixed', "studio_mix")
    /\ isProcessing' = FALSE
    /\ UNCHANGED error

\* handleExportMix, after its awaits: renderMix(tracks) resolved.
handleExportMixResolved(op) ==
    /\ mixed' = renderMix(op.capTracks, heap, FramesPerUnit)
    /\ downloadBuffer(mixed', "studio_mix")
    /\ isProcessing' = FALSE
    /\ UNCHANGED error

\* handleExportMix, after its awaits: the rendering rejected.
handleExportMixRejected(op) ==
    /\ mixed' = [error |-> "rendering failed", channels |-> 0, length |-> 0, data |-> <<>>]
    /\ error' = "export"
    /\ isProcessing' = FALSE
    /\ UNCHANGED downloads

\* ---------------------------------------------------------- transport steps
\* The clock of the run stops at MaxClock; playback is started no later than
\* PlayDeadline, so that the clock can still pass the end of any buffer.
PlayDeadline == MaxClock - MaxT

\* The AudioContext's clock advances.
AdvanceClock ==
    /\ clock < MaxClock
    /\ clock' = clock + 1
    /\ lastOp' = "other"
    /\ UNCHANGED <<heap, mixed, downloads, call>>
    /\ UNCHANGED <<activeTab, audioFile, audioBuffer, selection, history, historyIndex,
                   tracks, isPlaying, currentTime, isLoading, isProcessing, error, volume,
                   audioSourceRef, playbackStartTimeRef, playbackStartOffsetRef,
                   studioSourceNodesRef, ctxSources, pendingOps, nextBuf, nextTrack>>

\* The play/pause button or the space bar.
PlayPause ==
    /\ isPlaying \/ clock <= PlayDeadline
    /\ handlePlayPause
    /\ lastOp' = IF isPlaying THEN "pause" ELSE "play"
    /\ UNCHANGED <<heap, mixed, downloads, call>>
    /\ UNCHANGED <<activeTab, audioFile, audioBuffer, selection, history, historyIndex,
                   tracks, isLoading, isProcessing, error, volume, pendingOps,
                   nextBuf, nextTrack>>

\* A frame of the playback loop: the effect runs only while isPlaying.
Tick ==
    /\ isPlaying
    /\ PlaybackLoop
    /\ lastOp' = "tick"
    /\ UNCHANGED <<heap, mixed, downloads, call>>
    /\ UNCHANGED <<activeTab, audioFile, audioBuffer, selection, history, historyIndex,
                   tracks, isLoading, isProcessing, error, volume, clock, pendingOps,
                   nextBuf, nextTrack>>

\* A click on the ruler or the timeline of the studio tab: onSeek(time).
Seek ==
    \E time \in -1..MaxT :
        /\ activeTab = "studio"
        /\ ~isPlaying \/ clock <= PlayDeadline
        /\ handleSeek(time)
        /\ lastOp' = "seek"
        /\ UNCHANGED <<heap, mixed, downloads, call>>
        /\ UNCHANGED <<activeTab, audioFile, audioBuffer, selection, history, historyIndex,
                       tracks, isLoading, isProcessing, error, volume, pendingOps,
                       nextBuf, nextTrack>>

\* A click on one of the two tab buttons.
SwitchTab ==
    \E tab \in {"editor", "studio"} :
        /\ switchTab(tab)
        /\ lastOp' = "tab"
        /\ UNCHANGED <<heap, mixed, downloads, call>>
        /\ UNCHANGED <<audioFile, audioBuffer, selection, history, historyIndex,
                       tracks, isLoading, isProcessing, error, volume, clock, pendingOps,
                       nextBuf, nextTrack>>

\* <input type=file onChange> in the studio tab.
ChooseTrackFile ==
    \E f \in Files :
        /\ activeTab = "studio"
        /\ (nextTrack - 1) + Len(pendingOps) < MaxTracks
        /\ addTrackToStudio(f)
        /\ lastOp' = "addTrack"
        /\ UNCHANGED <<heap, mixed, downloads, call>>
        /\ UNCHANGED <<activeTab, audioFile, audioBuffer, selection, history, historyIndex,
                       tracks, isPlaying, currentTime, isProcessing, volume,
                       audioSourceRef, playbackStartTimeRef, playbackStartOffsetRef,
                       studioSourceNodesRef, clock, ctxSources, nextBuf, nextTrack>>

\* decodeAudioData settles for a pending addTrackToStudio.
TrackDecodeSettles ==
    \E i \in 1..Len(pendingOps) :
        /\ pendingOps[i].kind = "track"
        /\ pendingOps' = RemoveAt(pendingOps, i)
        /\ \/ /\ addTrackToStudioResolved(pendingOps[i],
                      [id |-> nextBuf, file |-> pendingOps[i].file,
                       duration |-> FileDuration(pendingOps[i].file)])
              /\ nextBuf' = nextBuf + 1
              /\ nextTrack' = nextTrack + 1
              /\ lastOp' = "trackAdded"
           \/ /\ addTrackToStudioRejected(pendingOps[i])
              /\ lastOp' = "trackFailed"
              /\ UNCHANGED <<nextBuf, nextTrack>>
        /\ UNCHANGED outputVars
        /\ UNCHANGED <<activeTab, audioFile, audioBuffer, selection, history, historyIndex,
                       isPlaying, currentTime, isProcessing, volume, audioSourceRef,
                       playbackStartTimeRef, playbackStartOffsetRef, studioSourceNodesRef,
                       clock, ctxSources>>

\* Where a drag leaves a track's bar, before the clamp.
DragTargets == {-1, 1}

\* A drag of a track's bar.
DragTrack ==
    \E i \in 1..Len(tracks), t \in DragTargets :
        /\ activeTab = "studio"
        /\ handleMouseMove(tracks[i].id, t)
        /\ lastOp' = "other"
        /\ UNCHANGED <<heap, mixed, downloads, call>>
        /\ UNCHANGED <<activeTab, audioFile, audioBuffer, selection, history, historyIndex,
                       isPlaying, currentTime, isLoading, isProcessing, error, volume,
                       audioSourceRef, playbackStartTimeRef, playbackStartOffsetRef,
                       studioSourceNodesRef, clock, ctxSources, pendingOps, nextBuf,
                       nextTrack>>

\* The MUTE button of a track.
ToggleMute ==
    \E i \in 1..Len(tracks) :
        /\ activeTab = "studio"
        /\ updateTrackMuted(tracks[i].id, ~tracks[i].isMuted)
        /\ lastOp' = "other"
        /\ UNCHANGED <<heap, mixed, downloads, call>>
        /\ UNCHANGED <<activeTab, audioFile, audioBuffer, selection, history, historyIndex,
                       isPlaying, currentTime, isLoading, isProcessing, error, volume,
                       audioSourceRef, playbackStartTimeRef, playbackStartOffsetRef,
                       studioSourceNodesRef, clock, ctxSources, pendingOps, nextBuf,
                       nextTrack>>

\* The trash button or the context menu of a track.
RemoveTrack ==
    \E i \in 1..Len(tracks) :
        /\ activeTab = "studio"
        /\ removeTrack(tracks[i].id)
        /\ lastOp' = "other"
        /\ UNCHANGED <<heap, mixed, downloads, call>>
        /\ UNCHANGED <<activeTab, audioFile, audioBuffer, selection, history, historyIndex,
                       isPlaying, currentTime, isLoading, isProcessing, error, volume,
                       audioSourceRef, playbackStartTimeRef, playbackStartOffsetRef,
                       studioSourceNodesRef, clock, ctxSources, pendingOps, nextBuf,
                       nextTrack>>

\* Where the volume slider of a track is left.
TrackVolumes == {5, 15}

\* The volume slider of a track.
SetTrackVolume ==
    \E i \in 1..Len(tracks), v \in TrackVolumes :
        /\ activeTab = "studio"
        /\ updateTrackVolume(tracks[i].id, v)
        /\ lastOp' = "other"
        /\ UNCHANGED <<heap, mixed, downloads, call>>
        /\ UNCHANGED <<activeTab, audioFile, audioBuffer, selection, history, historyIndex,
                       isPlaying, currentTime, isLoading, isProcessing, error, volume,
                       audioSourceRef, playbackStartTimeRef, playbackStartOffsetRef,
                       studioSourceNodesRef, clock, ctxSources, pendingOps, nextBuf,
                       nextTrack>>

\* renderMix is called with the track list as it is, at the sample rate of
\* the buffers, and its outcome is kept.
RenderMix ==
    /\ mixed' = renderMix(tracks, heap, FramesPerUnit)
    /\ lastOp' = "mix"
    /\ UNCHANGED <<heap, downloads, call>>
    /\ UNCHANGED <<activeTab, audioFile, audioBuffer, selection, history, historyIndex,
                   tracks, isPlaying, currentTime, isLoading, isProcessing, error, volume,
                   audioSourceRef, playbackStartTimeRef, playbackStartOffsetRef,
                   studioSourceNodesRef, clock, ctxSources, pendingOps, nextBuf,
                   nextTrack>>

\* The export button of the studio tab (disabled while isProcessing and
\* without tracks).
ExportMix ==
    /\ activeTab = "studio"
    /\ ~isProcessing
    /\ Len(tracks) > 0
    /\ Len(downloads) < MaxDownloads
    /\ handleExportMix
    /\ lastOp' = "export"
    /\ UNCHANGED <<heap, mixed, downloads, call>>
    /\ UNCHANGED <<activeTab, audioFile, audioBuffer, selection, history, historyIndex,
                   tracks, isPlaying, currentTime, isLoading, error, volume,
                   audioSourceRef, playbackStartTimeRef, playbackStartOffsetRef,
                   studioSourceNodesRef, clock, ctxSources, nextBuf, nextTrack>>

\* The rendering of a pending handleExportMix settles.
ExportSettles ==
    \E i \in 1..Len(pendingOps) :
        /\ pendingOps[i].kind = "export"
        /\ pendingOps' = RemoveAt(pendingOps, i)
        /\ \/ /\ handleExportMixResolved(pendingOps[i])
              /\ lastOp' = "exported"
           \/ /\ handleExportMixRejected(pendingOps[i])
              /\ lastOp' = "exportFailed"
        /\ UNCHANGED <<heap, call>>
        /\ UNCHANGED <<activeTab, audioFile, audioBuffer, selection, history, historyIndex,
                       tracks, isPlaying, currentTime, isLoading, volume,
                       audioSourceRef, playbackStartTimeRef, playbackStartOffsetRef,
                       studioSourceNodesRef, clock, ctxSources, nextBuf, nextTrack>>

\* ------------------------------------------------------------ the transport
\* The editor states a playback run starts from, each reachable in Spec:
\* no file loaded; file f loaded (one snapshot, the whole buffer selected);
\* and a buffer current under the selection {0, 0}: an effect on file 1 that
\* finished after file 1 was chosen again and before its decode failed.
EditorStates ==
    LET Decoded(n, f) == [id |-> n, file |-> f, duration |-> FileDuration(f)] IN
    {[audioFile |-> NoFile, audioBuffer |-> NoBuffer, selection |-> NoSelection,
      history |-> <<>>, historyIndex |-> -1, error |-> NoError, nextBuf |-> 1]}
    \cup {[audioFile |-> f, audioBuffer |-> Decoded(1, f),
           selection |-> [start |-> 0, end |-> FileDuration(f)],
           history |-> <<Decoded(1, f)>>, historyIndex |-> 0, error |-> NoError,
           nextBuf |-> 2] : f \in Files}
    \cup {[audioFile |-> 1, audioBuffer |-> Decoded(2, 1), selection |-> NoSelection,
           history |-> <<Decoded(1, 1), Decoded(2, 1)>>, historyIndex |-> 1,
           error |-> "decode", nextBuf |-> 3]}

\* The track collections a playback run starts from: the first n of the
\* tracks that adding file 2 and then file 1 in the studio tab creates.
AddedTrack(n, f) ==
    [id |-> n, file |-> f, buffer |-> [id |-> 10 + n, file |-> f, duration |-> FileDuration(f)],
     startTime |-> 0, volume |-> 10, isMuted |-> FALSE]

TrackSets ==
    LET all == [n \in 1..MaxTracks |-> AddedTrack(n, IF n % 2 = 1 THEN 2 ELSE 1)]
    IN  {SubSeq(all, 1, n) : n \in 0..MaxTracks}

\* The heap of a run that starts with the snapshots `h` and the tracks `trks`:
\* the decoded data of each buffer's file; the effect that made the second
\* snapshot was the studio effect over the whole buffer.
InitialHeap(h, trks) ==
    LET bufs == {h[i] : i \in DOMAIN h} \cup {trks[i].buffer : i \in DOMAIN trks}
        Of(n) == CHOOSE b \in bufs : b.id = n
    IN  [n \in {b.id : b \in bufs} |->
            IF \E i \in DOMAIN h : i > 1 /\ h[i].id = n
               THEN applyStudioEffect(DecodedData(Of(n).file), 0, Of(n).duration)
               ELSE DecodedData(Of(n).file)]

TransportInit ==
    /\ \E ed \in EditorStates :
        /\ audioFile = ed.audioFile
        /\ audioBuffer = ed.audioBuffer
        /\ selection = ed.selection
        /\ history = ed.history
        /\ historyIndex = ed.historyIndex
        /\ error = ed.error
        /\ nextBuf = ed.nextBuf
    /\ activeTab \in {"editor", "studio"}
    /\ tracks \in TrackSets
    /\ isPlaying = FALSE
    /\ currentTime = 0
    /\ isLoading = FALSE
    /\ isProcessing = FALSE
    /\ volume = 10
    /\ audioSourceRef = NoSource
    /\ playbackStartTimeRef = 0
    /\ playbackStartOffsetRef = 0
    /\ studioSourceNodesRef = <<>>
    /\ clock = 0
    /\ ctxSources = {}
    /\ pendingOps = <<>>
    /\ nextTrack = Len(tracks) + 1
    /\ heap = InitialHeap(history, tracks)
    /\ mixed = NoMix
    /\ downloads = <<>>
    /\ call = NoCall
    /\ lastOp = "init"

TransportNext ==
    \/ AdvanceClock
    \/ PlayPause
    \/ Tick
    \/ Seek
    \/ SwitchTab
    \/ BrushEnd
    \/ RemoveTrack

TransportSpec == TransportInit /\ [][TransportNext]_vars

\* The transport under fair frames and an advancing clock.
FairTransportSpec ==
    TransportSpec /\ WF_vars(Tick) /\ WF_vars(AdvanceClock)

\* ------------------------------------------------------------ the effects
\* The editor with a file loaded and a selection brushed or left as it was:
\* every effect button, the fades, undo, redo and the cut-and-download button.
EffectInit ==
    /\ \E ed \in EditorStates :
        /\ audioFile = ed.audioFile
        /\ audioBuffer = ed.audioBuffer
        /\ selection \in {ed.selection} \cup
                {r \in [start : 0..ed.audioBuffer.duration,
                        end : 0..ed.audioBuffer.duration] : r.start < r.end}
        /\ history = ed.history
        /\ historyIndex = ed.historyIndex
        /\ error = ed.error
        /\ nextBuf = ed.nextBuf
    /\ activeTab = "editor"
    /\ tracks = <<>>
    /\ isPlaying = FALSE
    /\ currentTime = 0
    /\ isLoading = FALSE
    /\ isProcessing = FALSE
    /\ volume = 10
    /\ audioSourceRef = NoSource
    /\ playbackStartTimeRef = 0
    /\ playbackStartOffsetRef = 0
    /\ studioSourceNodesRef = <<>>
    /\ clock = 0
    /\ ctxSources = {}
    /\ pendingOps = <<>>
    /\ nextTrack = 1
    /\ heap = InitialHeap(history, tracks)
    /\ mixed = NoMix
    /\ downloads = <<>>
    /\ call = NoCall
    /\ lastOp = "init"

EffectNext ==
    \/ AnyEffectButton
    \/ FadeButton
    \/ EffectSettles
    \/ Undo
    \/ Redo
    \/ TrimAndDownload

EffectSpec == EffectInit /\ [][EffectNext]_vars

\* ------------------------------------------------------ the audio utilities
\* The utilities of utils/audio.ts called directly, each on every buffer of
\* up to MaxFrames frames of the samples below, with every start and end up
\* to one unit past MaxT (empty, reversed and overhanging ranges included)
\* and every fade duration up to MaxT.  The samples lie below, at and above
\* the noise threshold.
Samples == {0, 1, 2, 60, -60}

Utilities == {"trim", "fadeIn", "fadeOut", "normalize", "noiseGate", "studio", "wav"}

\* Whether the utility throws on these arguments: trimAudioBuffer on a range
\* without frames, applyStudioEffect there and in its final set() when the
\* rendered range does not fit into the clone.
UtilityThrows(fn, data, start, end) ==
    \/ fn \in {"trim", "studio"} /\ TrimFrameCount(start, end) <= 0
    \/ fn = "studio" /\ Frame(end) > Len(data)

\* What the utility returns.
UtilityResult(fn, c) ==
    CASE fn = "trim" -> trimAudioBuffer(c.data, c.start, c.end)
      [] fn = "fadeIn" -> applyFadeIn(c.data, c.start, c.end, c.duration)
      [] fn = "fadeOut" -> applyFadeOut(c.data, c.start, c.end, c.duration)
      [] fn = "normalize" -> applyNormalize(c.data, c.start, c.end)
      [] fn = "noiseGate" -> applyNoiseReduction(c.data, c.start, c.end)
      [] fn = "studio" -> applyStudioEffect(c.data, c.start, c.end)
      [] fn = "wav" -> audioBufferToWavBlob([error |-> "none", channels |-> c.channels,
                                             length |-> Len(c.data), data |-> c.data])

CallUtility ==
    \E fn \in Utilities :
        /\ call.fn = "none"
        /\ call' = IF UtilityThrows(fn, call.data, call.start, call.end)
                      THEN [call EXCEPT !.fn = fn, !.error = "thrown"]
                      ELSE [call EXCEPT !.fn = fn, !.out = UtilityResult(fn, call)]
        /\ lastOp' = "call"
        /\ UNCHANGED <<heap, mixed, downloads>>
        /\ UNCHANGED <<activeTab, audioFile, audioBuffer, selection, history, historyIndex,
                       tracks, isPlaying, currentTime, isLoading, isProcessing, error,
                       volume, audioSourceRef, playbackStartTimeRef,
                       playbackStartOffsetRef, studioSourceNodesRef, clock, ctxSources,
                       pendingOps, nextBuf, nextTrack>>

UtilityInit ==
    /\ activeTab = "editor"
    /\ audioFile = NoFile
    /\ audioBuffer = NoBuffer
    /\ selection = NoSelection
    /\ history = <<>>
    /\ historyIndex = -1
    /\ tracks = <<>>
    /\ isPlaying = FALSE
    /\ currentTime = 0
    /\ isLoading = FALSE
    /\ isProcessing = FALSE
    /\ error = NoError
    /\ volume = 10
    /\ audioSourceRef = NoSource
    /\ playbackStartTimeRef = 0
    /\ playbackStartOffsetRef = 0
    /\ studioSourceNodesRef = <<>>
    /\ clock = 0
    /\ ctxSources = {}
    /\ pendingOps = <<>>
    /\ nextBuf = 1
    /\ nextTrack = 1
    /\ heap = NoHeap
    /\ mixed = NoMix
    /\ downloads = <<>>
    /\ \E n \in 1..MaxFrames :
       \E data \in [1..n -> Samples], channels \in {1, 2} :
       \E start \in 0..(MaxT + 1), end \in 0..(MaxT + 1), duration \in 0..MaxT :
           call = [NoCall EXCEPT !.channels = channels, !.data = data, !.start = start,
                                 !.end = end, !.duration = duration]
    /\ lastOp = "init"

UtilityNext == CallUtility

UtilitySpec == UtilityInit /\ [][UtilityNext]_vars

\* ------------------------------------------------------------ the studio
\* The studio tab with some tracks added: the tracks are dragged and muted
\* while the transport plays, pauses and seeks.
StudioInit ==
    /\ activeTab = "studio"
    /\ audioFile = NoFile
    /\ audioBuffer = NoBuffer
    /\ selection = NoSelection
    /\ history = <<>>
    /\ historyIndex = -1
    /\ tracks \in TrackSets
    /\ isPlaying = FALSE
    /\ currentTime = 0
    /\ isLoading = FALSE
    /\ isProcessing = FALSE
    /\ error = NoError
    /\ volume = 10
    /\ audioSourceRef = NoSource
    /\ playbackStartTimeRef = 0
    /\ playbackStartOffsetRef = 0
    /\ studioSourceNodesRef = <<>>
    /\ clock = 0
    /\ ctxSources = {}
    /\ pendingOps = <<>>
    /\ nextBuf = 1
    /\ nextTrack = Len(tracks) + 1
    /\ heap = InitialHeap(history, tracks)
    /\ mixed = NoMix
    /\ downloads = <<>>
    /\ call = NoCall
    /\ lastOp = "tab"

StudioNext ==
    \/ DragTrack
    \/ ToggleMute
    \/ AdvanceClock
    \/ PlayPause
    \/ Seek

StudioSpec == StudioInit /\ [][StudioNext]_vars

\* The studio's transport with the track controls used while a session
\* plays: play and pause, the frames of the playback loop, mute, remove and
\* drag.
StudioTransportNext ==
    \/ AdvanceClock
    \/ PlayPause
    \/ Tick
    \/ ToggleMute
    \/ RemoveTrack
    \/ DragTrack

StudioTransportSpec == StudioInit /\ [][StudioTransportNext]_vars

\* The studio's transport alone, under fair frames and an advancing clock.
StudioPlayNext ==
    \/ AdvanceClock
    \/ PlayPause
    \/ Tick
    \/ Seek

FairStudioSpec ==
    StudioInit /\ [][StudioPlayNext]_vars /\ WF_vars(Tick) /\ WF_vars(AdvanceClock)

\* ------------------------------------------------- the processing flag
\* Everything that sets, clears or is disabled by isProcessing, in both tabs:
\* the studio effect and the fade buttons, undo, redo, the cut-and-download button, the
\* export button, the completions of effects and exports, and the tab
\* switcher that leads from one set of buttons to the other.
ProcessingNext ==
    \/ ApplyEffect
    \/ FadeButton
    \/ EffectSettles
    \/ Undo
    \/ Redo
    \/ TrimAndDownload
    \/ SwitchTab
    \/ ExportMix
    \/ ExportSettles

\* The editor tab in any of the editor states, with no track or one track
\* waiting in the studio.
ProcessingInit ==
    /\ TransportInit
    /\ activeTab = "editor"
    /\ Len(tracks) <= 1

ProcessingSpec == ProcessingInit /\ [][ProcessingNext]_vars

\* ------------------------------------------------------- renderMix's inputs
\* renderMix on the track lists of the studio: none, one or more tracks, at
\* 0 or dragged to 1, muted or not, at the initial volume or a lower one.
MixNext ==
    \/ DragTrack
    \/ ToggleMute
    \/ SetTrackVolume
    \/ RenderMix

MixSpec == StudioInit /\ [][MixNext]_vars

\* -------------------------------------------------------------- the export
\* The studio tab while a mix is exported: tracks are added, changed and
\* removed before, during and after the rendering.
ExportNext ==
    \/ ChooseTrackFile
    \/ TrackDecodeSettles
    \/ ToggleMute
    \/ RemoveTrack
    \/ ExportMix
    \/ ExportSettles

ExportSpec == StudioInit /\ [][ExportNext]_vars

\* ------------------------------------------------------ the track collection
\* The studio tab's track list under every handler that changes it.
TrackNext ==
    \/ ChooseTrackFile
    \/ TrackDecodeSettles
    \/ DragTrack
    \/ SetTrackVolume
    \/ ToggleMute
    \/ RemoveTrack

TrackSpec == StudioInit /\ [][TrackNext]_vars

\* ------------------------------------------------- history manager: claims
\* A step that commits a buffer: the continuation of a load or of an effect
\* that called updateHistory.
IsCommit(op) == op \in {"loaded", "effectDone"}

\* C1: every commit leaves the history equal to the entries 0..index of the
\* history in effect at the moment of the commit followed by the committed
\* buffer, the index at the new last position and the committed buffer
\* current.
C1_CommitExtendsCurrentHistory ==
    [][IsCommit(lastOp') =>
          /\ history' = Append(Slice0(history, historyIndex + 1), audioBuffer')
          /\ historyIndex' = Len(history') - 1
          /\ audioBuffer'.id = nextBuf]_vars

\* C2: once a load has completed successfully the history holds exactly one
\* entry, the newly decoded buffer, at index 0, so that no snapshot of the
\* file loaded before can be reached by undo.
C2_LoadLeavesOneEntry ==
    lastOp = "loaded" =>
        /\ history = <<audioBuffer>>
        /\ historyIndex = 0

\* C3: in every reachable state -1 <= index < length(history), and the index
\* is length-1 right after a commit.
C3_IndexInBounds ==
    /\ -1 <= historyIndex
    /\ historyIndex < Len(history)
    /\ IsCommit(lastOp) => historyIndex = Len(history) - 1

\* C3 witness: a commit made after an undo, with a load still pending.
C3_Witness ==
    /\ lastOp = "effectDone"
    /\ Len(history) = 2
    /\ historyIndex = 1
    /\ nextBuf = 4
    /\ Len(pendingOps) = 1

\* C4: undo with index > 0 lowers the index by exactly one and makes
\* history[index] current; with index <= 0 (the empty history included) it
\* changes nothing; it never changes the history and raises no error.
C4_Undo ==
    [][lastOp' = "undo" =>
          /\ history' = history
          /\ error' = error
          /\ IF historyIndex > 0
                THEN /\ historyIndex' = historyIndex - 1
                     /\ audioBuffer' = HistAt(history, historyIndex')
                ELSE /\ historyIndex' = historyIndex
                     /\ audioBuffer' = audioBuffer]_vars

\* C4 witness: undo has stepped back from the last of two snapshots.
C4_Witness ==
    /\ lastOp = "undo"
    /\ Len(history) = 2
    /\ historyIndex = 0
    /\ audioBuffer = history[1]

\* C5: redo with index < length-1 raises the index by exactly one and makes
\* history[index] current; with index = length-1 (the empty history
\* included) it changes nothing; it never changes the history and raises no
\* error.
C5_Redo ==
    [][lastOp' = "redo" =>
          /\ history' = history
          /\ error' = error
          /\ IF historyIndex < Len(history) - 1
                THEN /\ historyIndex' = historyIndex + 1
                     /\ audioBuffer' = HistAt(history, historyIndex')
                ELSE /\ historyIndex' = historyIndex
                     /\ audioBuffer' = audioBuffer]_vars

\* C5 witness: redo has stepped forward to the last of two snapshots.
C5_Witness ==
    /\ lastOp = "redo"
    /\ Len(history) = 2
    /\ historyIndex = 1
    /\ audioBuffer = history[2]

\* ---------------------------------------------- transport scheduler: claims
\* C6: in every reachable state the sounding sources belong to at most one
\* playback session: never two editor sources, never an editor source
\* together with multi-track sources, never sources of two calls of
\* startPlayback.
C6_OneSessionSounding ==
    /\ Cardinality({x.session : x \in ctxSources}) <= 1
    /\ Cardinality({x \in ctxSources : x.mode = "editor"}) <= 1
    /\ \A x, y \in ctxSources : x.mode = y.mode

\* C6 witness: a seek during multi-track playback has restarted both tracks.
C6_Witness ==
    /\ lastOp = "seek"
    /\ isPlaying
    /\ activeTab = "studio"
    /\ Cardinality(ctxSources) = 2
    /\ clock > 0

\* C7: play(fromPosition) with a buffer loaded in single-buffer mode starts
\* at selection.start when fromPosition >= selection.end and at
\* max(selection.start, fromPosition) otherwise, schedules [offset,
\* selection.end), anchors the position at offset and the clock at the
\* current reading and leaves the transport playing; the offset lies in
\* [selection.start, selection.end].
C7_EditorPlay ==
    [][(lastOp' = "play" /\ activeTab = "editor" /\ audioBuffer # NoBuffer) =>
          LET offset == IF currentTime >= selection.end
                            THEN selection.start
                            ELSE Max(selection.start, currentTime)
          IN  /\ playbackStartOffsetRef' = offset
              /\ currentTime' = offset
              /\ playbackStartTimeRef' = clock
              /\ isPlaying'
              /\ audioSourceRef' \in ctxSources'
              /\ audioSourceRef'.when = clock
              /\ audioSourceRef'.offset = offset
              /\ audioSourceRef'.offset + audioSourceRef'.duration = selection.end
              /\ selection.start <= offset
              /\ offset <= selection.end]_vars

\* C7 witness: play from position 0 under the selection [1, 2) started at 1.
C7_Witness ==
    /\ lastOp = "play"
    /\ activeTab = "editor"
    /\ isPlaying
    /\ selection = [start |-> 1, end |-> 2]
    /\ playbackStartOffsetRef = 1
    /\ audioSourceRef.offset = 1
    /\ audioSourceRef.duration = 1

\* C8: a frame in single-buffer mode whose clock-derived position has
\* reached selection.end publishes exactly selection.end, stops all sources
\* and leaves the transport not playing; any other frame publishes the
\* clock-derived position and stays playing; and under fair frames and an
\* advancing clock single-buffer playback eventually stops.
C8_AutoStop ==
    /\ [][(lastOp' = "tick" /\ activeTab = "editor") =>
             IF playbackStartOffsetRef + (clock - playbackStartTimeRef) >= selection.end
                THEN /\ currentTime' = selection.end
                     /\ ~isPlaying'
                     /\ ctxSources' = {}
                     /\ audioSourceRef' = NoSource
                ELSE /\ currentTime' = playbackStartOffsetRef + (clock - playbackStartTimeRef)
                     /\ isPlaying'
                     /\ ctxSources' = ctxSources]_vars
    /\ (isPlaying /\ activeTab = "editor") ~> ~isPlaying

\* C8 witness: a frame has stopped playback at the end of the selection [0, 1)
\* of a longer buffer.
C8_Witness ==
    /\ lastOp = "tick"
    /\ activeTab = "editor"
    /\ ~isPlaying
    /\ selection = [start |-> 0, end |-> 1]
    /\ audioBuffer.duration = 2
    /\ currentTime = 1
    /\ clock >= 1
    /\ ctxSources = {}

\* C9: pause, in either mode, stops every sounding source, sets the position
\* to positionAnchor + (now - clockAnchorTime) and leaves the transport not
\* playing; while the transport is not playing nothing but a play or a seek
\* changes the position: the clock and the frames do not.
C9_Pause ==
    [][/\ lastOp' = "pause" =>
            /\ ctxSources' = {}
            /\ audioSourceRef' = NoSource
            /\ studioSourceNodesRef' = <<>>
            /\ currentTime' = playbackStartOffsetRef + (clock - playbackStartTimeRef)
            /\ ~isPlaying'
       /\ (~isPlaying /\ lastOp' \notin {"play", "seek"}) =>
            /\ currentTime' = currentTime
            /\ ~isPlaying']_vars

\* C9 witness: multi-track playback of two tracks was paused one unit in, and
\* the clock has advanced since.
C9_Witness ==
    /\ ~isPlaying
    /\ activeTab = "studio"
    /\ Len(tracks) = 2
    /\ currentTime = 1
    /\ playbackStartOffsetRef = 1
    /\ playbackStartTimeRef = 0
    /\ clock = 3
    /\ ctxSources = {}

\* C10: seek(time) moves the position to max(0, time); while playing it stops
\* all sources and re-plays from there, the transport staying playing with
\* both anchors reset (position anchor = the new position, clock anchor =
\* the current reading); while not playing it schedules nothing and the
\* transport stays not playing.
C10_Seek ==
    [][\A time \in -1..MaxT :
          (lastOp' = "seek" /\ handleSeek(time)) =>
              /\ currentTime' = Max(0, time)
              /\ playbackStartOffsetRef' = Max(0, time)
              /\ IF isPlaying
                    THEN /\ isPlaying'
                         /\ playbackStartTimeRef' = clock'
                         /\ ctxSources' = Range(studioSourceNodesRef')
                         /\ \A x \in ctxSources' : x.when >= clock
                    ELSE /\ ~isPlaying'
                         /\ ctxSources' = ctxSources]_vars

\* C11 as stated: the position published at every frame equals
\* positionAnchor + (now - clockAnchorTime).
C11_TickPublishesElapsed ==
    [][lastOp' = "tick" =>
          currentTime' = playbackStartOffsetRef + (clock - playbackStartTimeRef)]_vars

\* C11, amended: a frame that leaves the transport playing publishes
\* positionAnchor + (now - clockAnchorTime); the frame that stops single-buffer
\* playback publishes selection.end; in both cases the published position is
\* a function of the anchors, the clock reading and selection.end alone: a
\* frame changes neither anchor nor the clock, and a second frame at the same
\* clock reading publishes the same position again.
C11_ClockDerived ==
    [][lastOp' = "tick" =>
          LET pos == playbackStartOffsetRef + (clock - playbackStartTimeRef) IN
          /\ isPlaying' => currentTime' = pos
          /\ ~isPlaying' => (activeTab = "editor" /\ pos >= selection.end
                                /\ currentTime' = selection.end)
          /\ UNCHANGED <<playbackStartOffsetRef, playbackStartTimeRef, clock>>
          /\ lastOp = "tick" => currentTime' = currentTime]_vars

\* C11 witness: two frames in a row at clock reading 2 of a multi-track
\* playback anchored at position 1 and clock reading 1 published 2.
C11_Witness ==
    /\ lastOp = "tick"
    /\ isPlaying
    /\ activeTab = "studio"
    /\ playbackStartOffsetRef = 1
    /\ playbackStartTimeRef = 1
    /\ clock = 2
    /\ currentTime = 2

\* ------------------------------------------------ multi-track play: claims
\* A step in which startPlayback has scheduled the studio's tracks: a play
\* from the paused transport, or a seek of the playing one.
IsStudioPlay(op, wasPlaying) ==
    \/ op = "play" /\ ~wasPlaying
    \/ op = "seek" /\ wasPlaying

\* C12: multi-track play at position P leaves a track unscheduled iff it is
\* muted or startTime + duration <= P; every other track is scheduled exactly
\* once, with delay startTime - P and in-track offset 0 when startTime >= P,
\* with delay 0 and in-track offset P - startTime when startTime < P; every
\* scheduled source has delay >= 0 and 0 <= offset < duration.
C12_StudioSchedule ==
    [][(IsStudioPlay(lastOp', isPlaying) /\ activeTab = "studio" /\ Len(tracks) > 0) =>
          LET P == IF lastOp' = "play" THEN currentTime ELSE currentTime'
              nodes == studioSourceNodesRef'
              Of(t) == {i \in DOMAIN nodes : nodes[i].track = t.id}
              Delay(x) == {x.when - r : r \in {clock, clock'}}
          IN  /\ ctxSources' = Range(nodes)
              /\ \A i \in DOMAIN nodes : \E j \in DOMAIN tracks : nodes[i].track = tracks[j].id
              /\ \A j \in DOMAIN tracks :
                    LET t == tracks[j] IN
                    IF t.isMuted \/ t.startTime + t.buffer.duration <= P
                       THEN Of(t) = {}
                       ELSE /\ Cardinality(Of(t)) = 1
                            /\ \A i \in Of(t) :
                                  /\ IF t.startTime >= P
                                        THEN /\ (t.startTime - P) \in Delay(nodes[i])
                                             /\ nodes[i].offset = 0
                                        ELSE /\ 0 \in Delay(nodes[i])
                                             /\ nodes[i].offset = P - t.startTime
                                  /\ nodes[i].when >= clock
                                  /\ 0 <= nodes[i].offset
                                  /\ nodes[i].offset < t.buffer.duration
                                  /\ nodes[i].gain = t.volume]_vars

\* C12 witness: play at position 1 of a track of two units at 0, which is
\* started at its offset 1, and a track of one unit at 0, which has ended and
\* is left out.
C12_Witness ==
    /\ lastOp = "play"
    /\ activeTab = "studio"
    /\ isPlaying
    /\ playbackStartOffsetRef = 1
    /\ Len(tracks) = 2
    /\ \A j \in DOMAIN tracks : tracks[j].startTime = 0 /\ ~tracks[j].isMuted
    /\ {tracks[j].buffer.duration : j \in DOMAIN tracks} = {1, 2}
    /\ Len(studioSourceNodesRef) = 1
    /\ studioSourceNodesRef[1].offset = 1
    /\ studioSourceNodesRef[1].duration = 1

\* C13: all sources scheduled by one multi-track play share the anchor clock
\* reading: the absolute start instant of every delayed track equals
\* clockAnchorTime + (startTime - P), clockAnchorTime being the reading the
\* transport derives the published position from.
C13_SharedAnchor ==
    [][(IsStudioPlay(lastOp', isPlaying) /\ activeTab = "studio" /\ Len(tracks) > 0) =>
          LET P == IF lastOp' = "play" THEN currentTime ELSE currentTime'
              nodes == studioSourceNodesRef'
          IN  \A i \in DOMAIN nodes : \A j \in DOMAIN tracks :
                  (nodes[i].track = tracks[j].id /\ tracks[j].startTime >= P) =>
                      nodes[i].when = playbackStartTimeRef' + (tracks[j].startTime - P)]_vars

\* --------------------------------------------- live play against the mixdown
\* The last instant of the timeline a track can sound at.
TimelineEnd == MaxT + 2

\* What the sources `nodes` of track `id` contribute at timeline instant t,
\* a source that starts at clock reading `when` sounding from timeline
\* instant origin + when on: the in-track position and the gain of each.
ContributionAt(nodes, id, origin, t) ==
    {[pos |-> n.offset + (t - (origin + n.when)), gain |-> n.gain] :
        n \in {m \in Range(nodes) : /\ m.track = id
                                    /\ origin + m.when <= t
                                    /\ t - (origin + m.when) < m.duration}}

\* C14: the mixdown and the live multi-track scheduler apply the same
\* gain/mute/offset rule: after a multi-track play at position P, at every
\* timeline instant t >= P a track contributes to live playback iff it
\* contributes to the mixdown, which is iff it is not muted and
\* startTime <= t < startTime + duration; and then with the same gain
\* (track.volume) and the same in-track position t - startTime.  The
\* timeline instants of a live source are counted from the clock reading it
\* was scheduled against.
C14_LiveMatchesMix ==
    [][(IsStudioPlay(lastOp', isPlaying) /\ activeTab = "studio" /\ Len(tracks) > 0) =>
          LET P == IF lastOp' = "play" THEN currentTime ELSE currentTime'
          IN  \A j \in DOMAIN tracks :
                  LET t == tracks[j] IN
                  \E r \in {clock, clock'} :
                  \A at \in P..TimelineEnd :
                      /\ ContributionAt(studioSourceNodesRef', t.id, P - r, at)
                            = ContributionAt(MixSources(tracks), t.id, 0, at)
                      /\ ContributionAt(MixSources(tracks), t.id, 0, at)
                            = IF ~t.isMuted /\ t.startTime <= at
                                            /\ at < t.startTime + t.buffer.duration
                                 THEN {[pos |-> at - t.startTime, gain |-> t.volume]}
                                 ELSE {}]_vars

\* C14 witness: play at position 1 with the track of two units at 0, in
\* progress, and the track of one unit at 1, starting right then: both sound.
C14_Witness ==
    /\ lastOp = "play"
    /\ activeTab = "studio"
    /\ isPlaying
    /\ playbackStartOffsetRef = 1
    /\ Len(tracks) = 2
    /\ \A j \in DOMAIN tracks : ~tracks[j].isMuted
    /\ \E j \in DOMAIN tracks : tracks[j].startTime = 0 /\ tracks[j].buffer.duration = 2
    /\ \E j \in DOMAIN tracks : tracks[j].startTime = 1 /\ tracks[j].buffer.duration = 1
    /\ {studioSourceNodesRef[i].offset : i \in DOMAIN studioSourceNodesRef} = {0, 1}

\* ------------------------------------------------------- the mixdown: claims
\* C15: renderMix's output is a stereo buffer whose frame count is
\* ceil((max over all tracks, muted or not, of startTime + duration, plus
\* 0.5) * sampleRate): the least n with n >= (2 * latest end + 1) * rate / 2.
C15_MixShape ==
    (lastOp = "mix" /\ Len(tracks) > 0) =>
        LET latest == CHOOSE e \in 0..TimelineEnd :
                        /\ \E i \in DOMAIN tracks :
                              e = tracks[i].startTime + tracks[i].buffer.duration
                        /\ \A i \in DOMAIN tracks :
                              e >= tracks[i].startTime + tracks[i].buffer.duration
            twice == (2 * latest + 1) * FramesPerUnit
        IN  /\ mixed.error = "none"
            /\ mixed.channels = 2
            /\ Len(mixed.data) = mixed.length
            /\ 2 * mixed.length >= twice
            /\ 2 * (mixed.length - 1) < twice

\* C15 witness: the track that ends last, at 3, is muted, and the mix of the
\* other track is as long as the muted one and the pad need.
C15_Witness ==
    /\ lastOp = "mix"
    /\ Len(tracks) = 2
    /\ \E i, j \in DOMAIN tracks :
          /\ tracks[i].isMuted /\ tracks[i].startTime + tracks[i].buffer.duration = 3
          /\ ~tracks[j].isMuted /\ tracks[j].startTime + tracks[j].buffer.duration = 1
    /\ 2 * mixed.length >= 7 * FramesPerUnit

\* The samples of track t at output frame j, scaled by its volume: zero
\* before the track starts, after it ends, and when it is muted.
TrackSampleAt(t, j) ==
    LET k == j - Frame(t.startTime)
    IN  IF ~t.isMuted /\ 1 <= k /\ k <= Len(heap[t.buffer.id])
           THEN (heap[t.buffer.id][k] * t.volume) \div UnitGain
           ELSE 0

\* C16: a muted track contributes zero to every output sample: the mix is
\* the mix of the same tracks, all unmuted, with the muted tracks' samples
\* replaced by silence; every other track contributes its samples scaled by
\* its volume from its startTime on.
C16_MutedIsSilent ==
    (lastOp = "mix" /\ Len(tracks) > 0) =>
        LET unmuted == [i \in DOMAIN tracks |-> [tracks[i] EXCEPT !.isMuted = FALSE]]
            mutedBufs == {tracks[i].buffer.id : i \in {k \in DOMAIN tracks : tracks[k].isMuted}}
            silenced == [b \in DOMAIN heap |->
                            IF b \in mutedBufs THEN [k \in DOMAIN heap[b] |-> 0]
                                               ELSE heap[b]]
        IN  /\ mixed = renderMix(unmuted, silenced, FramesPerUnit)
            /\ \A j \in 1..Len(mixed.data) :
                  mixed.data[j] = SumSeq([i \in DOMAIN tracks |-> TrackSampleAt(tracks[i], j)])

\* C16 witness: a mix of a muted track and a track at half volume dragged to
\* 1: the first output frame, where only the muted track has samples, is
\* silent, and a later one is not.
C16_Witness ==
    /\ lastOp = "mix"
    /\ Len(tracks) = 2
    /\ \E i, j \in DOMAIN tracks :
          /\ tracks[i].isMuted /\ tracks[i].startTime = 0
          /\ heap[tracks[i].buffer.id][1] # 0
          /\ ~tracks[j].isMuted /\ tracks[j].startTime = 1 /\ tracks[j].volume = 5
    /\ mixed.data[1] = 0
    /\ \E k \in DOMAIN mixed.data : mixed.data[k] # 0

\* C17: renderMix called with an empty track list fails with the error
\* "No tracks to render" and produces no buffer.
C17_EmptyMixFails ==
    (lastOp = "mix" /\ Len(tracks) = 0) =>
        /\ mixed.error = "No tracks to render"
        /\ mixed.channels = 0
        /\ mixed.length = 0
        /\ mixed.data = <<>>

\* C17 witness: renderMix has been called with the empty list.
C17_Witness ==
    /\ lastOp = "mix"
    /\ tracks = <<>>
    /\ mixed.error # "none"
    /\ mixed # NoMix

\* -------------------------------------------------------- the export: claims
\* The export continuations among the pending ones, in order.
PendingExports(q) ==
    LET IsExport(op) == op.kind = "export" IN SelectSeq(q, IsExport)

\* C18: a mix export emits its WAV only when the rendering has completed,
\* and the WAV is that of the track list as it was when the export was
\* issued: adding, changing or removing tracks while the rendering is in
\* flight does not alter it; when the rendering fails nothing is emitted, an
\* error message is set and the processing flag is cleared.
C18_ExportOfIssuedTracks ==
    [][/\ downloads' # downloads => lastOp' = "exported"
       /\ lastOp' = "export" =>
             /\ PendingExports(pendingOps') =
                   Append(PendingExports(pendingOps), ExportContinuation(tracks))
             /\ isProcessing'
             /\ downloads' = downloads
       /\ lastOp' \notin {"export", "exported", "exportFailed"} =>
             PendingExports(pendingOps') = PendingExports(pendingOps)
       /\ lastOp' = "exported" =>
             \E i \in DOMAIN pendingOps :
                 /\ pendingOps[i].kind = "export"
                 /\ pendingOps' = RemoveAt(pendingOps, i)
                 /\ mixed' = renderMix(pendingOps[i].capTracks, heap, FramesPerUnit)
                 /\ mixed'.error = "none"
                 /\ downloads' = Append(downloads,
                        [name |-> "studio_mix", wav |-> audioBufferToWavBlob(mixed')])
                 /\ ~isProcessing'
       /\ lastOp' = "exportFailed" =>
             /\ downloads' = downloads
             /\ error' # NoError
             /\ ~isProcessing']_vars

\* C18 witness: the export of a track list has completed after every track
\* was removed while it was rendering: the WAV of the issued list is out.
C18_Witness ==
    /\ lastOp = "exported"
    /\ tracks = <<>>
    /\ Len(downloads) = 1
    /\ downloads[1].wav.bytes > 44
    /\ \E k \in DOMAIN downloads[1].wav.samples : downloads[1].wav.samples[k] # 0
    /\ ~isProcessing

\* -------------------------------------------------------- the effects: claims
\* C19: when an effect fails nothing is committed: neither the invocation
\* nor the failure changes history, historyIndex or the current buffer, no
\* buffer is created or written, one error message is set, and the
\* processing flag is cleared.
C19_FailedEffectCommitsNothing ==
    [][/\ lastOp' = "effect" =>
             /\ UNCHANGED <<history, historyIndex, audioBuffer, heap>>
             /\ isProcessing'
       /\ lastOp' = "effectFailed" =>
             /\ UNCHANGED <<history, historyIndex, audioBuffer, heap>>
             /\ error' = "effect"
             /\ ~isProcessing']_vars

\* C19 witness: the studio effect has failed on the empty selection {0, 0}
\* of an editor that has a current buffer and a history.
C19_Witness ==
    /\ lastOp = "effectFailed"
    /\ error = "effect"
    /\ ~isProcessing
    /\ selection = NoSelection
    /\ audioBuffer # NoBuffer
    /\ historyIndex >= 0
    /\ HistAt(history, historyIndex) = audioBuffer

\* C20: every effect and the trim write only to a buffer they create: no
\* step changes the samples of an existing buffer, so a snapshot keeps its
\* samples through every later effect, undo, redo and commit, at every
\* history position that still holds it.
C20_SnapshotsImmutable ==
    [][/\ \A id \in DOMAIN heap : id \in DOMAIN heap' /\ heap'[id] = heap[id]
       /\ \A i \in DOMAIN history :
             (i \in DOMAIN history' /\ history'[i] = history[i]) =>
                 heap'[history'[i].id] = heap[history[i].id]]_vars

\* C20 witness: an effect has been committed on top of the decoded snapshot:
\* the history holds both, with different samples, the first still as decoded.
C20_Witness ==
    /\ lastOp = "effectDone"
    /\ Len(history) >= 2
    /\ historyIndex = Len(history) - 1
    /\ heap[history[1].id] = DecodedData(history[1].file)
    /\ heap[history[Len(history)].id] # heap[history[1].id]
    /\ Len(heap[history[Len(history)].id]) = Len(heap[history[1].id])

\* ------------------------------------------------------ the selection: claims
\* C21: whenever a buffer is loaded the selection satisfies
\* 0 <= start <= end <= duration of the current buffer.
C21_SelectionInBounds ==
    audioBuffer # NoBuffer =>
        /\ 0 <= selection.start
        /\ selection.start <= selection.end
        /\ selection.end <= audioBuffer.duration

\* ------------------------------------------------ the track collection: claims
\* C22: every track of the collection has startTime >= 0 and a volume in
\* [0, 1.5] (0 to 15 tenths).
C22_TracksInRange ==
    \A i \in DOMAIN tracks :
        /\ tracks[i].startTime >= 0
        /\ 0 <= tracks[i].volume
        /\ 2 * tracks[i].volume <= 3 * UnitGain

\* C22 witness: after a drag, a track is away from 0 and another at 0; one
\* volume slider is at its upper end, the other at a half.
C22_Witness ==
    /\ lastOp = "other"
    /\ Len(tracks) = 2
    /\ {tracks[i].startTime : i \in DOMAIN tracks} = {0, 1}
    /\ {tracks[i].volume : i \in DOMAIN tracks} = {5, 15}

\* ----------------------------------------------------- the utilities: claims
\* C23: trim returns a new buffer of exactly floor(end*sr) - floor(start*sr)
\* frames whose frame k is input frame floor(start*sr) + k wherever the
\* input has that frame; it fails, returning no buffer, iff that frame count
\* is <= 0.
C23_Trim ==
    call.fn = "trim" =>
        LET count == Frame(call.end) - Frame(call.start) IN
        /\ call.error # "none" <=> count <= 0
        /\ call.error # "none" => call.out = <<>>
        /\ call.error = "none" =>
              /\ Len(call.out) = count
              /\ \A k \in 0..(count - 1) :
                    Frame(call.start) + k < Len(call.data) =>
                        call.out[k + 1] = call.data[Frame(call.start) + k + 1]

\* C23 witness: the last two of three frames, which differ from the first
\* two, have been trimmed out.
C23_Witness ==
    /\ call.fn = "trim"
    /\ call.error = "none"
    /\ Len(call.data) = 3
    /\ call.start = 1
    /\ Len(call.out) = 2
    /\ call.out # SubSeq(call.data, 1, 2)

\* C24: fadeIn changes only the samples j of [startSample, endSample), with
\* startSample = floor(selStart*sr) and endSample = min(startSample +
\* floor(duration*sr), floor(selEnd*sr)); sample j is multiplied by
\* (j - startSample)/len, len = endSample - startSample, so the sample at
\* startSample becomes 0; with len <= 0 the result equals the input.
C24_FadeIn ==
    call.fn = "fadeIn" =>
        LET startSample == Frame(call.start)
            endSample == Min(startSample + Frame(call.duration), Frame(call.end))
            len == endSample - startSample
        IN  /\ call.error = "none"
            /\ Len(call.out) = Len(call.data)
            /\ len <= 0 => call.out = call.data
            /\ len > 0 =>
                  \A j \in 0..(Len(call.data) - 1) :
                      /\ startSample <= j /\ j < endSample =>
                            call.out[j + 1] = (call.data[j + 1] * (j - startSample)) \div len
                      /\ j = startSample => call.out[j + 1] = 0
                      /\ ~(startSample <= j /\ j < endSample) =>
                            call.out[j + 1] = call.data[j + 1]

\* C24 witness: a fade-in of 2 units over a selection of 3: the first sample
\* is silenced, the second halved, the third, inside the selection but past
\* the fade, kept.
C24_Witness ==
    /\ call.fn = "fadeIn"
    /\ call.data = <<60, 60, 60>>
    /\ call.start = 0 /\ call.end = 3 /\ call.duration = 2
    /\ call.out = <<0, 30, 60>>

\* C25: fadeOut changes only the samples j of [startSample, endSample), with
\* endSample = floor(selEnd*sr) and startSample = max(floor(selStart*sr),
\* endSample - floor(duration*sr)); sample j is multiplied by
\* 1 - (j - startSample)/len, len = endSample - startSample (gain 1 at
\* startSample, 1/len at endSample - 1); with len <= 0 the result equals the
\* input; the window lies inside the selection.
C25_FadeOut ==
    call.fn = "fadeOut" =>
        LET endSample == Frame(call.end)
            startSample == Max(Frame(call.start), endSample - Frame(call.duration))
            len == endSample - startSample
        IN  /\ call.error = "none"
            /\ Len(call.out) = Len(call.data)
            /\ len <= 0 => call.out = call.data
            /\ len > 0 =>
                  \A j \in 0..(Len(call.data) - 1) :
                      /\ startSample <= j /\ j < endSample =>
                            call.out[j + 1] =
                                (call.data[j + 1] * (len - (j - startSample))) \div len
                      /\ j = startSample => call.out[j + 1] = call.data[j + 1]
                      /\ j = endSample - 1 /\ startSample <= j =>
                            call.out[j + 1] = call.data[j + 1] \div len
                      /\ j < Frame(call.start) \/ j >= Frame(call.end) =>
                            call.out[j + 1] = call.data[j + 1]
                      /\ ~(startSample <= j /\ j < endSample) =>
                            call.out[j + 1] = call.data[j + 1]

\* C25 witness: a fade-out of 2 units over a selection of 3: the first
\* sample, inside the selection but before the fade, is kept, the second has
\* gain 1, the third gain 1/2.
C25_Witness ==
    /\ call.fn = "fadeOut"
    /\ call.data = <<60, 60, 60>>
    /\ call.start = 0 /\ call.end = 3 /\ call.duration = 2
    /\ call.out = <<60, 60, 30>>

\* C26: normalize: with peak the largest |sample| of the region
\* [floor(start*sr), floor(end*sr)), a peak of 0 leaves the result equal to
\* the input; otherwise every sample of the region is scaled by 1/peak, the
\* region's peak becomes full scale, and every sample outside the region
\* equals the input.
C26_Normalize ==
    call.fn = "normalize" =>
        LET region == {j \in 0..(Len(call.data) - 1) :
                          Frame(call.start) <= j /\ j < Frame(call.end)}
            peak == Peak({Abs(call.data[j + 1]) : j \in region})
        IN  /\ call.error = "none"
            /\ Len(call.out) = Len(call.data)
            /\ peak = 0 => call.out = call.data
            /\ peak # 0 =>
                  /\ \A j \in region :
                        call.out[j + 1] = (call.data[j + 1] * FullScale) \div peak
                  /\ Peak({Abs(call.out[j + 1]) : j \in region}) = FullScale
                  /\ \A j \in (0..(Len(call.data) - 1)) \ region :
                        call.out[j + 1] = call.data[j + 1]

\* C27: noiseGate sets to 0 every sample of the region whose absolute value
\* is below the threshold and leaves every other sample, inside or outside
\* the region, equal to the input; applied to its own result it changes
\* nothing.
C27_NoiseGate ==
    call.fn = "noiseGate" =>
        /\ call.error = "none"
        /\ Len(call.out) = Len(call.data)
        /\ \A j \in 0..(Len(call.data) - 1) :
              call.out[j + 1] =
                  IF /\ Frame(call.start) <= j /\ j < Frame(call.end)
                     /\ Abs(call.data[j + 1]) < NoiseThreshold
                     THEN 0
                     ELSE call.data[j + 1]
        /\ applyNoiseReduction(call.out, call.start, call.end) = call.out

\* C27 witness: of three quiet samples the one in the region is silenced, and
\* in the region a sample at the threshold is kept.
C27_Witness ==
    /\ call.fn = "noiseGate"
    /\ call.data = <<1, 1, 2>>
    /\ call.start = 1 /\ call.end = 3
    /\ call.out = <<1, 0, 2>>

\* C28: studioEffect returns a buffer of the frame count of the original in
\* which exactly the samples [floor(start*sr), floor(start*sr) +
\* processedLength) are overwritten by the rendered result, processedLength
\* being the frame count of trim(buffer, start, end), and every sample before
\* and after that window equals the original; for a selection within the
\* buffer the write does not run past the end of the buffer.
C28_StudioWindow ==
    call.fn = "studio" =>
        LET startSample == Frame(call.start)
            processedLength == Frame(call.end) - Frame(call.start)
        IN  /\ processedLength > 0 /\ Frame(call.end) <= Len(call.data)
                  => call.error = "none"
            /\ call.error = "none" =>
                  /\ Len(call.out) = Len(call.data)
                  /\ \A j \in 0..(Len(call.data) - 1) :
                        call.out[j + 1] =
                            IF startSample <= j /\ j < startSample + processedLength
                               THEN StudioChain(call.data[j + 1])
                               ELSE call.data[j + 1]

\* C28 witness: the middle frame of three equal frames has been processed and
\* differs now from the frames before and after it, which are as they were.
C28_Witness ==
    /\ call.fn = "studio"
    /\ call.error = "none"
    /\ call.data = <<60, 60, 60>>
    /\ call.start = 1 /\ call.end = 2
    /\ call.out[1] = 60 /\ call.out[2] # 60 /\ call.out[3] = 60

\* C29: in the studioEffect chain the source feeds the compressor, the
\* compressor's output feeds the low-shelf filter, and the low-shelf filter's
\* output is what is rendered into the processed window.
C29_CompressorThenLowShelf ==
    call.fn = "studio" /\ call.error = "none" =>
        \A j \in 0..(Len(call.data) - 1) :
            Frame(call.start) <= j /\ j < Frame(call.end) =>
                call.out[j + 1] = eq(compressor(call.data[j + 1]))

\* C30: encodeWav's size fields agree: the total byte length is 44 +
\* frameCount*channelCount*2, the RIFF size field at offset 4 is total - 8,
\* the data length field at offset 40 is frameCount*channelCount*2, block
\* align (offset 32) is channelCount*2 and byte rate (offset 28) is
\* sampleRate*channelCount*2; the sample of frame i, channel j is written at
\* byte offset 44 + 2*(i*channelCount + j); a mono buffer of 2 frames encodes
\* to 48 bytes with data length 4.
C30_WavLayout ==
    call.fn = "wav" =>
        LET wav == call.out
            frameCount == Len(call.data)
            channelCount == call.channels
            FieldsAt(o) == {i \in DOMAIN wav.header : wav.header[i].offset = o}
            Field(o) == wav.header[CHOOSE i \in FieldsAt(o) : TRUE].value
        IN  /\ call.error = "none"
            /\ wav.bytes = 44 + frameCount * channelCount * 2
            /\ \A o \in {4, 28, 32, 40} : Cardinality(FieldsAt(o)) = 1
            /\ Field(4) = wav.bytes - 8
            /\ Field(40) = frameCount * channelCount * 2
            /\ Field(32) = channelCount * 2
            /\ Field(28) = FramesPerUnit * channelCount * 2
            /\ Len(wav.pcm) = frameCount * channelCount
            /\ \A i \in 0..(frameCount - 1), j \in 0..(channelCount - 1) :
                  \E k \in DOMAIN wav.pcm :
                      /\ wav.pcm[k].frame = i /\ wav.pcm[k].channel = j
                      /\ wav.pcm[k].offset = 44 + 2 * (i * channelCount + j)
                      /\ wav.samples[k] = floatTo16BitPCM(call.data[i + 1])
            /\ channelCount = 1 /\ frameCount = 2 =>
                  wav.bytes = 48 /\ Field(40) = 4

\* C30 witness: a mono buffer of two frames, 0.6 and -0.6, has been encoded
\* to 48 bytes, its samples at offsets 44 and 46.
C30_Witness ==
    /\ call.fn = "wav"
    /\ call.channels = 1
    /\ call.data = <<60, -60>>
    /\ call.out.bytes = 48
    /\ call.out.pcm[1].offset = 44 /\ call.out.samples[1] = 19660
    /\ call.out.pcm[2].offset = 46 /\ call.out.samples[2] = -19660

\* ------------------------------------------------- error handling and flags
\* C31: a decode failure leaves no partial state: when the decode of a newly
\* chosen editor file fails, the history is empty with index -1, there is no
\* current buffer, an error message is set and the loading flag is cleared;
\* when the decode of a file added as a track fails, the track collection is
\* unchanged, an error message is set and the loading flag is cleared.
C31_DecodeFailureLeavesNothing ==
    [][/\ lastOp' = "loadFailed" =>
             /\ history' = <<>>
             /\ historyIndex' = -1
             /\ audioBuffer' = NoBuffer
             /\ error' # NoError
             /\ ~isLoading'
       /\ lastOp' = "trackFailed" =>
             /\ tracks' = tracks
             /\ error' # NoError
             /\ ~isLoading']_vars

\* The sources that have not yet played to their end at the current reading
\* of the clock.
ActiveSources == {n \in ctxSources : clock < n.when + n.duration}

\* The published position lies past the end of every track.
PastLongestTrack ==
    /\ tracks # <<>>
    /\ \A i \in DOMAIN tracks :
          currentTime > tracks[i].startTime + tracks[i].buffer.duration

\* C32: in the studio, playback stops on its own once the position has
\* passed the end of the longest track: under fair frames and an advancing
\* clock a playing multi-track session whose position is past that end leads
\* to a state that is not playing and has no active source.
C32_StudioAutoStop ==
    (activeTab = "studio" /\ isPlaying /\ PastLongestTrack)
        ~> (~isPlaying /\ ActiveSources = {})

\* C33: whenever the history index is >= 0 the current buffer is
\* history[index]; whenever it is -1 the history is empty and there is no
\* current buffer; in every reachable state, those with a load or an effect
\* in flight included.
C33_CurrentIsHistoryAtIndex ==
    /\ historyIndex >= 0 =>
          /\ historyIndex < Len(history)
          /\ audioBuffer = history[historyIndex + 1]
    /\ historyIndex = -1 =>
          /\ history = <<>>
          /\ audioBuffer = NoBuffer
    /\ historyIndex >= -1

\* C33 witness: an effect is in flight on the first of two snapshots, which
\* undo has made current.
C33_Witness ==
    /\ lastOp = "effect"
    /\ \E i \in DOMAIN pendingOps : pendingOps[i].kind = "effect"
    /\ Len(history) = 2
    /\ historyIndex = 0
    /\ audioBuffer = history[1]

\* C34: when loads overlap each other or an effect in flight, then once all
\* of them have completed the current buffer is one of the most recently
\* chosen file, the one recorded as the current audio file: no decode of an
\* earlier file and no effect computed on the previous file's buffer is the
\* current buffer of the new file.
C34_CurrentBufferOfCurrentFile ==
    (pendingOps = <<>> /\ audioBuffer # NoBuffer) => audioBuffer.file = audioFile

\* The effects and exports in flight.
InFlight == SelectSeq(pendingOps, LAMBDA op : op.kind \in {"effect", "export"})

\* C35: the processing flag is true exactly while an effect or a mix export
\* is in flight, and at most one is in flight at any time: the effect, undo,
\* redo, trim-export and mix-export triggers do nothing while the flag is
\* true, and the flag is cleared when the operation succeeds and when it
\* fails.
C35_ProcessingFlag ==
    /\ [](/\ isProcessing <=> InFlight # <<>>
          /\ Len(InFlight) <= 1)
    /\ [][/\ isProcessing =>
                lastOp' \notin {"effect", "fadeRefused", "undo", "redo", "trim", "export"}
          /\ lastOp' \in {"effectDone", "effectFailed", "exported", "exportFailed"} =>
                isProcessing /\ ~isProcessing']_vars

\* C35 witness: an export started in the studio tab is in flight while the
\* editor tab, with a buffer loaded, is shown.
C35_Witness ==
    /\ isProcessing
    /\ activeTab = "editor"
    /\ audioBuffer # NoBuffer
    /\ Len(pendingOps) = 1
    /\ pendingOps[1].kind = "export"

\* ------------------------------------------------ the track collection: claims
\* The ids of the tracks, in order.
TrackIds(trks) == [i \in DOMAIN trks |-> trks[i].id]

\* C36: adding tracks loses no update: a completed decode appends one track
\* for its file at the end of the collection as it is at that moment, with
\* every track already present kept as it is, updates included; a failed
\* decode and the start of an add change nothing; an update keeps every
\* track in place and a removal takes out one track only.  So the tracks
\* stand in the order in which their decodes completed.
C36_NoLostTrackUpdates ==
    /\ [](\A i, j \in DOMAIN tracks : i < j => tracks[i].id < tracks[j].id)
    /\ [][/\ lastOp' = "trackAdded" =>
                /\ Len(tracks') = Len(tracks) + 1
                /\ SubSeq(tracks', 1, Len(tracks)) = tracks
                /\ \E i \in DOMAIN pendingOps :
                      /\ pendingOps[i].kind = "track"
                      /\ pendingOps' = RemoveAt(pendingOps, i)
                      /\ tracks'[Len(tracks')].file = pendingOps[i].file
                /\ \A i \in DOMAIN tracks : tracks'[Len(tracks')].id # tracks[i].id
          /\ lastOp' \in {"addTrack", "trackFailed"} => tracks' = tracks
          /\ lastOp' \notin {"trackAdded", "addTrack", "trackFailed"} =>
                \/ TrackIds(tracks') = TrackIds(tracks)
                \/ \E i \in DOMAIN tracks : tracks' = RemoveAt(tracks, i)]_vars

\* C36 witness: two files were added in this run; the second decode has
\* completed after the first track was moved and muted, and the first track
\* is still moved and muted.
C36_Witness ==
    /\ lastOp = "trackAdded"
    /\ Len(tracks) = 2
    /\ tracks[1].buffer.id = 1 /\ tracks[2].buffer.id = 2
    /\ tracks[1].startTime = 1
    /\ tracks[1].isMuted
    /\ tracks[2].startTime = 0

\* ------------------------------------------- the transport: further claims
\* C37: while a multi-track session plays, every active source belongs to a
\* track that is in the collection and not muted, and plays it at the
\* track's current volume and startTime (its place on the timeline, counted
\* from the position and the clock reading the session was started at).
C37_AudibleFollowsTracks ==
    (activeTab = "studio" /\ isPlaying) =>
        \A n \in ActiveSources :
            \E j \in DOMAIN tracks :
                LET t == tracks[j]
                    P == playbackStartOffsetRef
                IN  /\ t.id = n.track
                    /\ ~t.isMuted
                    /\ n.gain = t.volume
                    /\ IF n.offset > 0
                          THEN t.startTime = P - n.offset
                          ELSE t.startTime - P \in
                                  {n.when - playbackStartTimeRef,
                                   n.when - playbackStartTimeRef + 1}

\* ------------------------------------------- the editor's transport alone
\* Single-buffer playback with a selection that stays as it is: the clock,
\* the play/pause button and the frames of the playback loop.
EditorPlayNext ==
    \/ AdvanceClock
    \/ PlayPause
    \/ Tick

\* The editor tab with no tracks; the selection is the whole buffer or one
\* the brush has left on it.
EditorPlayInit ==
    /\ \E ed \in EditorStates :
        /\ audioFile = ed.audioFile
        /\ audioBuffer = ed.audioBuffer
        /\ history = ed.history
        /\ historyIndex = ed.historyIndex
        /\ error = ed.error
        /\ nextBuf = ed.nextBuf
        /\ \/ selection = ed.selection
           \/ /\ ed.audioBuffer # NoBuffer
              /\ \E s \in 0..MaxT, e \in 0..MaxT :
                    /\ s < e
                    /\ e <= ed.audioBuffer.duration
                    /\ selection = [start |-> s, end |-> e]
    /\ activeTab = "editor"
    /\ tracks = <<>>
    /\ isPlaying = FALSE
    /\ currentTime = 0
    /\ isLoading = FALSE
    /\ isProcessing = FALSE
    /\ volume = 10
    /\ audioSourceRef = NoSource
    /\ playbackStartTimeRef = 0
    /\ playbackStartOffsetRef = 0
    /\ studioSourceNodesRef = <<>>
    /\ clock = 0
    /\ ctxSources = {}
    /\ pendingOps = <<>>
    /\ nextTrack = 1
    /\ heap = InitialHeap(history, tracks)
    /\ mixed = NoMix
    /\ downloads = <<>>
    /\ call = NoCall
    /\ lastOp = "init"

EditorPlaySpec == EditorPlayInit /\ [][EditorPlayNext]_vars

\* C38: in single-buffer mode with a fixed selection, every position published
\* by a frame of the playback loop and every position frozen by a pause lies
\* within [selection.start, selection.end], whatever the interleaving of
\* clock advances, frames and pauses (stated for non-empty selections).
C38_PositionWithinSelection ==
    [][(lastOp' \in {"tick", "pause"} /\ selection.start < selection.end) =>
          /\ selection.start <= currentTime'
          /\ currentTime' <= selection.end]_vars

\* C39: whenever the transport is not playing no sound source is scheduled
\* and both refs are empty; every step that clears isPlaying (pause, the
\* auto-stop of a frame at the selection end, a tab switch) leaves no source
\* behind, and every step that schedules a new source leaves isPlaying set.
C39_NotPlayingIsSilent ==
    /\ [](~isPlaying =>
            /\ ctxSources = {}
            /\ audioSourceRef = NoSource
            /\ studioSourceNodesRef = <<>>)
    /\ [][/\ (isPlaying /\ ~isPlaying') =>
                /\ lastOp' \in {"pause", "tick", "tab"}
                /\ ctxSources' = {}
                /\ audioSourceRef' = NoSource
                /\ studioSourceNodesRef' = <<>>
          /\ ~(ctxSources' \subseteq ctxSources) => isPlaying']_vars

\* C39 witness: playback of the single buffer was started at clock 1 and the
\* user has switched to the studio tab since: nothing sounds.
C39_Witness ==
    /\ lastOp = "tab"
    /\ activeTab = "studio"
    /\ audioBuffer # NoBuffer
    /\ playbackStartTimeRef = 1
    /\ ~isPlaying
    /\ ctxSources = {}
    /\ audioSourceRef = NoSource
    /\ studioSourceNodesRef = <<>>

\* C40: undo and redo are inverse on the history state: in every reachable
\* state with index > 0, undo followed by redo gives back the same index and
\* current buffer, and in every reachable state with index < length - 1,
\* redo followed by undo does; neither sequence changes the history.
C40_UndoRedoInverse ==
    /\ historyIndex > 0 =>
          /\ Undone(HistoryState) # HistoryState
          /\ Redone(Undone(HistoryState)) = HistoryState
    /\ historyIndex < Len(history) - 1 =>
          /\ Redone(HistoryState) # HistoryState
          /\ Undone(Redone(HistoryState)) = HistoryState

\* C40 witness: an undo has stepped back to the second of three snapshots,
\* from where both sequences apply.
C40_Witness ==
    /\ lastOp = "undo"
    /\ Len(history) = 3
    /\ historyIndex = 1
    /\ audioBuffer = history[2]
    /\ Redone(HistoryState).historyIndex = 2
    /\ Undone(HistoryState).historyIndex = 0

====
